---------------------------- MODULE Spec2Model ----------------------------
(***************************************************************************)
(* A model of ItchClaim (src/ItchClaim/__main__.py): the HTTP retry client *)
(* _send_web, the claim transaction _claim_game, and the operations that   *)
(* run it (the claim sweep, scrape_sales, _claim_reward).                  *)
(*                                                                         *)
(* The claim transaction is modelled from _claim_game, the body that       *)
(* user.claim_game(game) runs: its self is the user (self.s, the session,  *)
(* self.csrf_token, self.owned_games, self.owns_game_online).              *)
(*                                                                         *)
(* The specifications of the module:                                       *)
(*   SpecWeb     one call of _send_web, one action per loop iteration;     *)
(*   Spec        one process run of claim sweeps and reward claims, one    *)
(*               action per network exchange (the points where the origin  *)
(*               decides the outcome);                                     *)
(*   SpecScrape  Spec with scrape_sales added;                             *)
(*   SpecLogin   the constructor with its login loop, and refresh_library; *)
(*   SpecSale    calls of ItchSale(...), from_dict and serialize           *)
(*               (src/ItchClaim/ItchSale.py);                              *)
(*   SpecCrawl   runs of refresh_sale_cache and the Resume Cursor;         *)
(*   SpecGame    one Game object, its probed fields and its file           *)
(*               (src/ItchClaim/ItchGame.py);                              *)
(*   SpecSched   the loop of schedule, its sweeps and termination signals. *)
(* Each specification moves its own part of the state and starts with the  *)
(* other parts parked.                                                     *)
(***************************************************************************)
EXTENDS Integers, Sequences, FiniteSets, TLC

(***************************************************************************)
(* Bounds of the model.                                                    *)
(***************************************************************************)
\* game urls are 1..NumUrls
NumUrls == 2
\* longest candidate feed of one claim sweep
MaxFeed == 2
\* deepest nesting of claim_game inside itself that the model follows
MaxDepth == 2
\* most game cells on one sale page
MaxCells == 2
\* largest scrape_step / scrape_limit given to scrape_sales
MaxStep == 2
\* most iterations of the page loop of scrape_sales that end in its except
\* clause before the counters moved
MaxStalled == 2
\* most reward items of one game
MaxRewards == 2
\* most operations started in one run
MaxOps == 2
\* most iterations of _send_web that take the 429 branch
MaxRateLimited == 3
\* most calls of login the model follows in one constructor
MaxLogins == 6
\* promotion ids are 1..NumSales
NumSales == 1
\* dates and timestamps are 0..MaxTime
MaxTime == 1
\* most calls of ItchSale(...) and from_dict in one run
MaxSaleCalls == 2
\* the numeric walk meets its frontier at MaxSaleId + 1 at the latest
MaxSaleId == 2
\* most runs of refresh_sale_cache
MaxRuns == 3

(***************************************************************************)
(* Program constants.                                                      *)
(***************************************************************************)
\* __main__.py:296  "if count == 100"
MaxAttempts == 100

Urls == 1..NumUrls

VARIABLES
    \* ---- _send_web (one call) ----
    wpc,            \* "idle" | "loop" | "returned" | "exited" | "raised"
    count,          \* local count
    r,              \* local r: the response object r is bound to
    nreq,           \* requests issued by this call
    lastAns,        \* what the last request ended with: a status, or TransportError
    fails,          \* attempts that ended with another status or a transport error
    rateLimited,    \* iterations that took the 429 branch
    \* ---- the claim engine ----
    mode,           \* the operation running: "idle" | "claim" | "claim_url" | "scrape"
    pc,             \* the position inside it
    owned_games,    \* user.owned_games: a list of game urls
    saved,          \* the owned list last written by save_session
    games,          \* claim: the candidate feed
    i,              \* claim: index of the game the loop is at
    claimed_games,  \* claim: local claimed_games
    g,              \* claim_game: game.url (0: no game)
    depth,          \* claim_game: nesting depth of the running call
    negCount,       \* download-negotiation POSTs of this claim attempt
    posted,         \* a claim-submission POST was issued in this attempt
    snap,           \* owned_games when the attempt was requested
    reqOwned,       \* game.url was in owned_games when the attempt was requested
    resp,           \* the last answer of the download negotiation ("none": not asked)
    claim_box,      \* local claim_box: "none" (not fetched) | "nobox" | "box"
    final_url,      \* r.url after the claim submission: "none" | "home" | "other"
    online,         \* owns_game_online's answer: "none" | "yes" | "no"
    outcome,        \* how the attempt ended
    succeeded,      \* urls whose claim succeeded in this run
    rePosted,       \* a claim POST was issued for a url already in succeeded
    txClaimed,      \* urls the claim transaction appended in this run
    owned_list,     \* scrape_sales: local owned_list
    page_count,     \* scrape_sales: local page_count
    scrape_page,    \* scrape_sales: scrape_page
    scrape_limit,   \* scrape_sales: scrape_limit
    scrape_step,    \* scrape_sales: scrape_step
    sales_len,      \* scrape_sales: len(sales_list)
    iterations,     \* scrape_sales: iterations of the page loop begun by this call
    stalled,        \* scrape_sales: those that ended before the counters moved
    cells,          \* scrape_sales: the game urls of the page being walked
    j,              \* scrape_sales: index of the cell the walk is at
    future_sale,    \* scrape_sales: local future_sale
    ops,            \* operations started in this run
    \* ---- ItchClaim.__init__ and login ----
    cpc,            \* the constructor: "start" | "sleep" | "ready" | "raised" | "exited"
    user,           \* self.user: "None" | "unset" (never assigned) | "ItchUser"
    username,       \* self.user.username: "None" | "name"
    session_file,   \* the persisted session of the username: "absent" | "valid" | "invalid"
    loginCalls,     \* calls of self.login made by the constructor
    loginRequests,  \* interactive login transactions (user.login) made
    authFailed,     \* calls of self.login that ended without an authenticated user
    reloads,        \* library reloads made by refresh_library
    \* ---- ItchSale ----
    tz,             \* the utc offset of the machine's local time
    spc,            \* the call: "idle" | "fetch" | "returned" | "raised" | "serialize_raised"
    sop,            \* the call: "none" | "ItchSale" | "from_dict"
    arg,            \* its arguments (id, start, end), or the dict given to from_dict
    reply,          \* the origin's answer to the request of get_data_online
    ret,            \* the Sale the call returned
    exc,            \* the exception the call raised
    cached_sales,   \* ItchSale.cached_sales
    serialized,     \* what serialize() of the returned Sale produced
    fetches,        \* requests issued by get_data_online in this run
    refetches,      \* per id, the refetches that from_dict issued in this run
    calls,          \* calls made in this run
    \* ---- refresh_sale_cache ----
    rpc,            \* "idle" | "walk" | "upsert" | "advance" | "rescan" | "done" | "crashed"
    resume_index,   \* the number in resume_index.txt (NoCursor: no file)
    resume,         \* local resume
    pid,            \* the promotion id the numeric walk is at
    category,       \* index of the category the re-scan is at
    sales_db,       \* ids of the Sales upserted
    games_db,       \* ids of the Sales whose Games were upserted
    requested,      \* ids the numeric walk of this run has requested
    startCursor,    \* resume_index when this run started
    processedMax,   \* the highest id this run has fully processed (0: none)
    prevCrashAt,    \* the id the previous run crashed at (0: it did not)
    prevStopAt,     \* the id the previous run's walk stopped at (0: it did not)
    runs,           \* runs of refresh_sale_cache started
    sales,          \* the sales argument of this run: given (not None) and its ids
    \* ---- ItchGame ----
    gpc,            \* the call: "idle" | "returned" | "raised"
    gop,            \* "none" | "claimable" | "sale_end" | "save_to_disk" | "load_from_disk"
    game,           \* the Game object at hand: its attributes and their values
    origin,         \* how the object was made: "from_div" | "load_from_disk"
    game_file,      \* the file of the game in the games directory
    gexc,           \* the exception the call raised
    probes,         \* per probed field, the requests issued for this object
    hits,           \* per probed field, the reads its __dict__ answered
    written,        \* the object as the last save_to_disk that returned wrote it
    gops,           \* calls made in this run
    \* ---- schedule ----
    sched,          \* "check" | "sweep" | "sleep" | "exited" | "crashed"
    cron,           \* the minutes the cron expression matches
    clock,          \* wall-clock time, in ticks
    called,         \* ops when the check that started the current sweep matched
    sweptAt,        \* the minutes of the checks that started a sweep
    signalled,      \* a termination signal was delivered
    opsAtSignal,    \* ops when the first signal was delivered
    swallowed       \* the SystemExit of a signal was caught inside the run

webVars == <<wpc, count, r, nreq, lastAns, fails, rateLimited>>
txVars == <<g, depth, negCount, posted, snap, reqOwned, resp, claim_box,
            final_url, online, outcome>>
sweepVars == <<games, i, claimed_games>>
scrapeVars == <<owned_list, page_count, scrape_page, scrape_limit, scrape_step,
                sales_len, cells, j, future_sale, iterations, stalled>>
histVars == <<succeeded, rePosted, txClaimed>>
claimVars == <<mode, pc, owned_games, saved, txVars, sweepVars, scrapeVars,
               histVars, ops>>
loginVars == <<cpc, user, username, session_file, loginCalls, loginRequests,
               authFailed, reloads>>
\* everything outside the retry client and the claim engine
saleVars == <<tz, spc, sop, arg, reply, ret, exc, cached_sales, serialized,
              fetches, refetches, calls>>
crawlVars == <<rpc, resume_index, resume, pid, category, sales_db, games_db,
               requested, startCursor, processedMax, prevCrashAt, prevStopAt, runs,
               sales>>
gameVars == <<gpc, gop, game, origin, game_file, gexc, probes, hits, written, gops>>
schedVars == <<sched, cron, clock, called, sweptAt, signalled, opsAtSignal, swallowed>>
restVars == <<loginVars, saleVars, crawlVars, gameVars, schedVars>>
vars == <<webVars, claimVars, restVars>>

(***************************************************************************)
(* Helpers.                                                                *)
(***************************************************************************)
Range(s) == {s[k] : k \in DOMAIN s}

RECURSIVE SetToSeq(_)
SetToSeq(S) ==
    IF S = {} THEN <<>>
    ELSE LET m == CHOOSE x \in S : \A y \in S : x <= y
         IN  <<m>> \o SetToSeq(S \ {m})

\* the sequences over S of length at most n
SeqsUpTo(S, n) == UNION {[1..k -> S] : k \in 0..n}

\* those among them that hold no element twice
DistinctSeqsUpTo(S, n) ==
    {s \in SeqsUpTo(S, n) : \A a, b \in DOMAIN s : a # b => s[a] # s[b]}

(***************************************************************************)
(* _send_web                                                               *)
(***************************************************************************)
Statuses == {200, 404, 301, 429, 500, 403}

\* lastAns before the first request, and after a request that raised
NoAnswer == 0
TransportError == -1

\* r before its first assignment
Unbound == [status |-> 0, req |-> 0]

WebIdle ==
    /\ wpc = "idle"
    /\ count = 0
    /\ r = Unbound
    /\ nreq = 0
    /\ lastAns = NoAnswer
    /\ fails = 0
    /\ rateLimited = 0

\* a faulty variant of IsReturnStatus: the loop breaks on 429 too
IsReturnStatusPlus429(s) == s \in {200, 404, 301, 429}
\* the statuses on which the loop breaks
IsReturnStatus(s) == s \in {200, 404, 301}

\* a faulty variant of IsRateLimited: 429 is counted like any other failure
IsRateLimitedNever(s) == FALSE
\* the status on which the loop sleeps and continues without counting
IsRateLimited(s) == s = 429

\* The statements after the try block, run on whatever r is bound to.
Dispatch(rr) ==
    IF rr = Unbound
    THEN \* r.status_code on an unbound local: UnboundLocalError leaves _send_web
         /\ wpc' = "raised"
         /\ UNCHANGED <<count, rateLimited>>
    ELSE IF IsReturnStatus(rr.status)
    THEN /\ wpc' = "returned"
         /\ UNCHANGED <<count, rateLimited>>
    ELSE IF IsRateLimited(rr.status)
    THEN /\ rateLimited < MaxRateLimited
         /\ rateLimited' = rateLimited + 1
         /\ wpc' = "loop"
         /\ UNCHANGED count
    ELSE /\ count' = count + 1
         /\ wpc' = IF count + 1 = MaxAttempts THEN "exited" ELSE "loop"
         /\ UNCHANGED rateLimited

SendWebCall ==
    /\ wpc = "idle"
    /\ wpc' = "loop"
    /\ count' = 0
    /\ UNCHANGED <<r, nreq, lastAns, fails, rateLimited>>
    /\ UNCHANGED <<claimVars, restVars>>

\* One iteration whose request is answered with status s.
AttemptResponse ==
    /\ wpc = "loop"
    /\ \E s \in Statuses :
         /\ nreq' = nreq + 1
         /\ lastAns' = s
         /\ r' = [status |-> s, req |-> nreq + 1]
         /\ fails' = IF s \in {200, 404, 301, 429} THEN fails ELSE fails + 1
         /\ Dispatch(r')
    /\ UNCHANGED <<claimVars, restVars>>

\* One iteration whose request raises requests.RequestException: the except
\* clause prints it and r keeps what it was bound to.
AttemptTransportError ==
    /\ wpc = "loop"
    /\ nreq' = nreq + 1
    /\ lastAns' = TransportError
    /\ r' = r
    /\ fails' = fails + 1
    /\ Dispatch(r')
    /\ UNCHANGED <<claimVars, restVars>>

NextWeb == SendWebCall \/ AttemptResponse \/ AttemptTransportError

(***************************************************************************)
(* The claim engine                                                        *)
(***************************************************************************)
\* no claim attempt in progress
TxIdle ==
    /\ g = 0
    /\ depth = 0
    /\ negCount = 0
    /\ posted = FALSE
    /\ snap = <<>>
    /\ reqOwned = FALSE
    /\ resp = "none"
    /\ claim_box = "none"
    /\ final_url = "none"
    /\ online = "none"
    /\ outcome = "none"

SweepIdle ==
    /\ games = <<>>
    /\ i = 0
    /\ claimed_games = 0

ScrapeIdle ==
    /\ owned_list = {}
    /\ page_count = 0
    /\ scrape_page = 0
    /\ scrape_limit = 0
    /\ scrape_step = 0
    /\ sales_len = 0
    /\ cells = <<>>
    /\ j = 0
    /\ future_sale = FALSE
    /\ iterations = 0
    /\ stalled = 0

\* what the remote library (or a persisted session) can hold
LibrarySnapshots == {SetToSeq(S) : S \in SUBSET Urls}

\* no operation of the claim engine has run
EngineIdle ==
    /\ mode = "idle"
    /\ pc = "idle"
    /\ TxIdle
    /\ SweepIdle
    /\ ScrapeIdle
    /\ succeeded = {}
    /\ rePosted = FALSE
    /\ txClaimed = {}
    /\ ops = 0

ClaimIdle ==
    /\ EngineIdle
    /\ owned_games \in LibrarySnapshots
    /\ saved = owned_games

\* a faulty variant of OwnsUrl: no game is found in the list
OwnsUrlNever(owned, url) == FALSE
\* _owns_game: a linear search of owned_games by url
OwnsUrl(owned, url) == \E k \in 1..Len(owned) : owned[k] = url

\* user.owns_game(game)
owns_game(url) == OwnsUrl(owned_games, url)

\* a faulty variant of NotLoggedIn: the test for a missing user is lost
NotLoggedInNever(u) == FALSE
\* if self.user is None: print('You must be logged in'); return
NotLoggedIn(u) == u = "None"

\* the claim engine, parked: SpecWeb follows one call of _send_web alone
ClaimParked == ClaimIdle /\ owned_games = <<>>

\* The constructor has returned with a logged-in user whose session loaded
\* from disk: the state the operations of a logged-in run start from.
LoggedIn ==
    /\ cpc = "ready"
    /\ user = "ItchUser"
    /\ username = "name"
    /\ session_file = "valid"
    /\ loginCalls = 1
    /\ loginRequests = 0
    /\ authFailed = 0
    /\ reloads = 0

(***************************************************************************)
(* ItchSale: values                                                        *)
(***************************************************************************)
SaleIds == 1..NumSales
Times == 0..MaxTime

\* None as a date of a Sale; a key missing from a persisted record
NoDate == -100

\* the utc offsets the machine can run with
Offsets == {-1, 0, 1}

\* no Sale object
NoSale == [id |-> 0, start |-> NoDate, end |-> NoDate, err |-> "None"]

\* no persisted record
NoRecord == [id |-> 0, start |-> NoDate, end |-> NoDate]

\* no request was issued
NoReply == [status |-> NoAnswer, redirected |-> FALSE, payload |-> FALSE,
            id |-> 0, start |-> NoDate, end |-> NoDate]

\* no ItchSale call has been made
SaleIdle ==
    /\ spc = "idle"
    /\ sop = "none"
    /\ arg = NoRecord
    /\ reply = NoReply
    /\ ret = NoSale
    /\ exc = "none"
    /\ cached_sales = [n \in SaleIds |-> NoSale]
    /\ serialized = NoRecord
    /\ fetches = 0
    /\ refetches = [n \in SaleIds |-> 0]
    /\ calls = 0

SaleParked == SaleIdle /\ tz = 0

\* resume_index.txt does not exist
NoCursor == 0

\* sales: List[int] = None
NoSales == [given |-> FALSE, ids |-> <<>>]

\* refresh_sale_cache has not run; the cache directory is empty
CrawlIdle ==
    /\ rpc = "idle"
    /\ resume_index = NoCursor
    /\ resume = 1
    /\ pid = 0
    /\ category = 0
    /\ sales_db = {}
    /\ games_db = {}
    /\ requested = {}
    /\ startCursor = NoCursor
    /\ processedMax = 0
    /\ prevCrashAt = 0
    /\ prevStopAt = 0
    /\ runs = 0
    /\ sales = NoSales

\* what lies outside the retry client and the claim engine, parked
\* the eight attributes of a Game that save_to_disk writes
Fields == {"id", "name", "url", "price", "claimable", "sale_id", "sale_end",
           "cover_image"}

\* price = None
NoPrice == -1

\* sale_id as the program holds it: the id, and how many sequences (a tuple
\* in memory, a list in json) are wrapped around it
Scalar(n) == [value |-> n, wraps |-> 0]

\* the values of the attributes that are not set
NoVals == [id |-> 0, name |-> "", url |-> "", price |-> NoPrice,
           claimable |-> FALSE, sale_id |-> Scalar(0), sale_end |-> NoDate,
           cover_image |-> ""]

\* no object, and no file
NoGame == [has |-> {}, val |-> NoVals]
NoFile == [exists |-> FALSE, has |-> {}, val |-> NoVals]
NoProbes == [claimable |-> 0, sale_end |-> 0]

\* no ItchGame call has been made
GameIdle ==
    /\ gpc = "idle"
    /\ gop = "none"
    /\ game = NoGame
    /\ origin = "none"
    /\ game_file = NoFile
    /\ gexc = "none"
    /\ probes = NoProbes
    /\ hits = NoProbes
    /\ written = NoGame
    /\ gops = 0

\* schedule has not been called
SchedIdle ==
    /\ sched = "idle"
    /\ cron = {}
    /\ clock = 0
    /\ called = 0
    /\ sweptAt = <<>>
    /\ signalled = FALSE
    /\ opsAtSignal = 0
    /\ swallowed = FALSE

RestParked == LoggedIn /\ SaleParked /\ CrawlIdle /\ GameIdle /\ SchedIdle

InitWeb == WebIdle /\ ClaimParked /\ RestParked

SpecWeb == InitWeb /\ [][NextWeb]_vars

(***************************************************************************)
(* Claims about _send_web (SpecWeb)                                        *)
(***************************************************************************)

\* C8: every attempt that ends with a status other than 200, 404, 301 or 429,
\* or with a transport error, counts toward the ceiling and is retried (the
\* call never leaves by another way), and the call fails fatally exactly when
\* MaxAttempts such attempts have occurred.
C8_EveryFailureCountsAndIsRetried ==
    /\ wpc # "raised"
    /\ count = fails
    /\ (wpc = "exited" <=> fails = MaxAttempts)

\* C9: _send_web returns only a response whose status is 200, 404 or 301, that
\* response is the one of the last request issued, and a request answered
\* with such a status is the last one of the call.
C9_ReturnsOkResponseOfLastRequest ==
    /\ wpc = "returned" =>
         /\ lastAns \in {200, 404, 301}
         /\ r = [status |-> lastAns, req |-> nreq]
    /\ lastAns \in {200, 404, 301} => wpc = "returned"

\* C9 witness: a call that returned after a rate limit, a transport error
\* right after it and a counted failure.
C9_Witness ==
    /\ wpc = "returned"
    /\ rateLimited >= 2
    /\ count >= 1
    /\ fails > count

\* C10: a request answered with 429 never counts toward the ceiling and never
\* ends the call; the call exits only after MaxAttempts attempts that ended
\* with another failure.
C10_RateLimitNeverCounts ==
    [][ /\ (nreq' = nreq + 1 /\ lastAns' = 429) =>
             (count' = count /\ wpc' = "loop")
        /\ count' <= fails'
        /\ (wpc' = "exited" => fails' >= MaxAttempts) ]_vars

\* C10 witness: several 429 answers interleaved with counted failures, the
\* call still looping.
C10_Witness ==
    /\ wpc = "loop"
    /\ lastAns = 429
    /\ rateLimited >= 2
    /\ count >= 2

(***************************************************************************)
(* The claim transaction: _claim_game (user.claim_game)                    *)
(***************************************************************************)
TxReset ==
    /\ g' = 0
    /\ depth' = 0
    /\ negCount' = 0
    /\ posted' = FALSE
    /\ snap' = <<>>
    /\ reqOwned' = FALSE
    /\ resp' = "none"
    /\ claim_box' = "none"
    /\ final_url' = "none"
    /\ online' = "none"
    /\ outcome' = "none"

\* A caller runs claim_game(game) with game.url = url: control enters the
\* transaction at the download negotiation.
CallClaimGame(url) ==
    /\ g' = url
    /\ depth' = 0
    /\ negCount' = 0
    /\ posted' = FALSE
    /\ snap' = owned_games
    /\ reqOwned' = owns_game(url)
    /\ resp' = "none"
    /\ claim_box' = "none"
    /\ final_url' = "none"
    /\ online' = "none"
    /\ outcome' = "none"
    /\ pc' = "neg"

\* Where control goes after the download negotiation was answered.
\*   "exc"   the POST or json.loads raised: caught, the call returns
\*   "stale" errors[0] is 'invalid game' or 'invalid user'
\*   "error" another error
\*   "url"   a download url
AfterNegotiation(ans) ==
    CASE ans = "exc"   -> [pc |-> "ret", outcome |-> "CheckFailed"]
      [] ans = "stale" -> [pc |-> "redirect", outcome |-> "none"]
      [] ans = "error" -> [pc |-> "ret", outcome |-> "NegotiationError"]
      [] ans = "url"   -> [pc |-> "fetch", outcome |-> "none"]

\* r = self.s.post(game.url + '/download_url', ...); resp = json.loads(r.text)
Negotiate ==
    /\ pc = "neg"
    /\ \E ans \in {"exc", "stale", "error", "url"} :
         /\ negCount' = negCount + 1
         /\ resp' = ans
         /\ pc' = AfterNegotiation(ans).pc
         /\ outcome' = AfterNegotiation(ans).outcome
    /\ UNCHANGED <<g, depth, posted, snap, reqOwned, claim_box, final_url, online>>
    /\ UNCHANGED <<mode, owned_games, saved, sweepVars, scrapeVars, histVars, ops>>
    /\ UNCHANGED <<webVars, restVars>>

\* if game.check_redirect_url(): self.claim_game(game); return
\*   "changed" the canonical url was refreshed: claim_game runs again, nested
\*   "same"    no new url: the error is printed and the call returns
\*   "exc"     the refresh raised
RedirectAnswers == {"changed", "same", "exc"}

RefreshUrl ==
    /\ pc = "redirect"
    /\ \E ans \in RedirectAnswers :
         IF ans = "changed"
         THEN /\ depth < MaxDepth
              /\ \E u \in Urls \ {g} : g' = u
              /\ depth' = depth + 1
              /\ pc' = "neg"
              /\ UNCHANGED outcome
         ELSE /\ pc' = IF ans = "same" THEN "ret" ELSE "raise"
              /\ outcome' = IF ans = "same" THEN "NegotiationError" ELSE "Exception"
              /\ UNCHANGED <<g, depth>>
    /\ UNCHANGED <<negCount, posted, snap, reqOwned, resp, claim_box, final_url, online>>
    /\ UNCHANGED <<mode, owned_games, saved, sweepVars, scrapeVars, histVars, ops>>
    /\ UNCHANGED <<webVars, restVars>>

\* a faulty variant of HasClaimBox: the test for a missing claim box is lost
HasClaimBoxAlways(ans) == TRUE
\* Whether the download page makes the transaction go on to the submission.
HasClaimBox(ans) == ans = "box"

\* r = self.s.get(download_url); claim_box = soup.find(...)
\*   "exc" the GET raised; "nobox" no claim box; "box" a claim box
FetchPage ==
    /\ pc = "fetch"
    /\ \E ans \in {"exc", "nobox", "box"} :
         IF ans = "exc"
         THEN pc' = "raise" /\ outcome' = "Exception" /\ UNCHANGED claim_box
         ELSE IF HasClaimBox(ans)
         THEN pc' = "submit" /\ claim_box' = ans /\ UNCHANGED outcome
         ELSE pc' = "ret" /\ claim_box' = ans /\ outcome' = "NotClaimable"
    /\ UNCHANGED <<g, depth, negCount, posted, snap, reqOwned, resp, final_url, online>>
    /\ UNCHANGED <<mode, owned_games, saved, sweepVars, scrapeVars, histVars, ops>>
    /\ UNCHANGED <<webVars, restVars>>

\* r = self.s.post(claim_url, ...); if r.url == 'https://itch.io/': ... else: append
\*   "exc" the POST raised; "home" it landed on the home page; "other" elsewhere
Submit ==
    /\ pc = "submit"
    /\ posted' = TRUE
    /\ rePosted' = (rePosted \/ g \in succeeded)
    /\ \E ans \in {"exc", "home", "other"} :
         CASE ans = "exc" ->
                /\ pc' = "raise"
                /\ outcome' = "Exception"
                /\ UNCHANGED <<final_url, owned_games, succeeded, txClaimed>>
           [] ans = "home" ->
                /\ pc' = "verify"
                /\ final_url' = "home"
                /\ UNCHANGED <<outcome, owned_games, succeeded, txClaimed>>
           [] ans = "other" ->
                /\ pc' = "ret"
                /\ final_url' = "other"
                /\ owned_games' = Append(owned_games, g)
                /\ succeeded' = succeeded \cup {g}
                /\ txClaimed' = txClaimed \cup {g}
                /\ outcome' = "Success"
    /\ UNCHANGED <<g, depth, negCount, snap, reqOwned, resp, claim_box, online>>
    /\ UNCHANGED <<mode, saved, sweepVars, scrapeVars, ops>>
    /\ UNCHANGED <<webVars, restVars>>

\* a faulty variant of VerifyOutcome: the answer of the probe is ignored
VerifyOutcomeAlwaysOwned(ans) == "AlreadyClaimed"
\* What the verification on the home page decides from owns_game_online.
VerifyOutcome(ans) == IF ans = "yes" THEN "AlreadyClaimed" ELSE "UnknownClaimFailure"

\* if self.owns_game_online(game): append; return / print unknown failure
\*   "exc" the probe raised; "yes" owned; "no" not owned
Verify ==
    /\ pc = "verify"
    /\ \E ans \in {"exc", "yes", "no"} :
         IF ans = "exc"
         THEN /\ pc' = "raise"
              /\ outcome' = "Exception"
              /\ UNCHANGED <<online, owned_games, succeeded, txClaimed>>
         ELSE /\ pc' = "ret"
              /\ online' = ans
              /\ outcome' = VerifyOutcome(ans)
              /\ owned_games' = IF VerifyOutcome(ans) = "AlreadyClaimed"
                                THEN Append(owned_games, g) ELSE owned_games
              /\ succeeded' = IF VerifyOutcome(ans) = "AlreadyClaimed"
                              THEN succeeded \cup {g} ELSE succeeded
              /\ txClaimed' = IF VerifyOutcome(ans) = "AlreadyClaimed"
                              THEN txClaimed \cup {g} ELSE txClaimed
    /\ UNCHANGED <<g, depth, negCount, posted, snap, reqOwned, resp, claim_box, final_url>>
    /\ UNCHANGED <<mode, saved, sweepVars, scrapeVars, rePosted, ops>>
    /\ UNCHANGED <<webVars, restVars>>

(***************************************************************************)
(* The claim sweep: claim                                                  *)
(***************************************************************************)
\* user.reload_owned_games(): the list is replaced by the remote snapshot
reload_owned_games(lib) == lib

\* if self.user is None: return
\* if len(owned_games) == 0: reload_owned_games(); save_session()
\* then the feed (each game once) is downloaded and the loop starts.
ClaimStart ==
    /\ mode = "idle"
    /\ ops < MaxOps
    /\ ops' = ops + 1
    /\ IF NotLoggedIn(user)
       THEN UNCHANGED <<mode, pc, owned_games, saved, sweepVars>>
       ELSE /\ \E lib \in LibrarySnapshots :
                 /\ owned_games' = IF Len(owned_games) = 0
                                   THEN reload_owned_games(lib) ELSE owned_games
                 /\ saved' = IF Len(owned_games) = 0 THEN owned_games' ELSE saved
            /\ \E feed \in DistinctSeqsUpTo(Urls, MaxFeed) : games' = feed
            /\ i' = 1
            /\ claimed_games' = 0
            /\ mode' = "claim"
            /\ pc' = "loop"
    /\ UNCHANGED <<txVars, scrapeVars, histVars>>
    /\ UNCHANGED <<webVars, restVars>>

\* for game in games: if not owns_game(game): claim_game(game) ...
\* (the inner loop of lines 129-131 compares with the feed url and only
\* continues itself: it changes nothing)
ClaimLoop ==
    /\ mode = "claim"
    /\ pc = "loop"
    /\ IF i > Len(games)
       THEN /\ pc' = "done"
            /\ UNCHANGED <<i, txVars>>
       ELSE IF owns_game(games[i])
       THEN /\ i' = i + 1
            /\ UNCHANGED <<pc, txVars>>
       ELSE /\ CallClaimGame(games[i])
            /\ UNCHANGED i
    /\ UNCHANGED <<mode, owned_games, saved, games, claimed_games, scrapeVars,
                   histVars, ops>>
    /\ UNCHANGED <<webVars, restVars>>

\* what save_session writes
save_session(owned) == owned

\* claim_game returned: save_session(); claimed_games += 1
ClaimReturn ==
    /\ mode = "claim"
    /\ pc = "ret"
    /\ saved' = save_session(owned_games)
    /\ claimed_games' = claimed_games + 1
    /\ i' = i + 1
    /\ pc' = "loop"
    /\ TxReset
    /\ UNCHANGED <<mode, owned_games, games, scrapeVars, histVars, ops>>
    /\ UNCHANGED <<webVars, restVars>>

\* claim_game raised: nothing in claim catches it, the sweep ends there
ClaimRaise ==
    /\ mode = "claim"
    /\ pc = "raise"
    /\ pc' = "crashed"
    /\ TxReset
    /\ UNCHANGED <<mode, owned_games, saved, sweepVars, scrapeVars, histVars, ops>>
    /\ UNCHANGED <<webVars, restVars>>

\* the loop is over and claim returns
ClaimDone ==
    /\ mode = "claim"
    /\ pc = "done"
    /\ mode' = "idle"
    /\ pc' = "idle"
    /\ games' = <<>>
    /\ i' = 0
    /\ claimed_games' = 0
    /\ UNCHANGED <<owned_games, saved, txVars, scrapeVars, histVars, ops>>
    /\ UNCHANGED <<webVars, restVars>>

(***************************************************************************)
(* scrape_sales                                                            *)
(***************************************************************************)
ScrapeReset ==
    /\ owned_list' = {}
    /\ page_count' = 0
    /\ scrape_page' = 0
    /\ scrape_limit' = 0
    /\ scrape_step' = 0
    /\ sales_len' = 0
    /\ cells' = <<>>
    /\ j' = 0
    /\ future_sale' = FALSE
    /\ iterations' = 0
    /\ stalled' = 0

\* Without a user the call returns at once. Otherwise the library is
\* reloaded when empty, owned_list is built from owned_games once, and the
\* page counters are set up (sale 0 is skipped).
ScrapeStart ==
    /\ mode = "idle"
    /\ ops < MaxOps
    /\ ops' = ops + 1
    /\ IF NotLoggedIn(user)
       THEN UNCHANGED <<mode, pc, owned_games, saved, scrapeVars>>
       ELSE /\ \E lib \in LibrarySnapshots :
                 /\ owned_games' = IF Len(owned_games) = 0
                                   THEN reload_owned_games(lib) ELSE owned_games
                 /\ saved' = IF Len(owned_games) = 0 THEN owned_games' ELSE saved
            /\ owned_list' = Range(owned_games')
            /\ \E page \in 0..1, limit \in 1..(MaxStep + 1), step \in 1..MaxStep,
                  sl \in 0..1 :
                 /\ scrape_limit' = limit
                 /\ scrape_step' = step
                 /\ sales_len' = sl
                 /\ page_count' = IF page = 0 THEN 1 ELSE 0
                 /\ scrape_page' = IF page = 0 THEN 1 ELSE page
            /\ cells' = <<>>
            /\ j' = 0
            /\ future_sale' = FALSE
            /\ iterations' = 0
            /\ stalled' = 0
            /\ mode' = "scrape"
            /\ pc' = "page"
    /\ UNCHANGED <<txVars, sweepVars, histVars>>
    /\ UNCHANGED <<webVars, restVars>>

\* The head of the page loop and the resolution of the page's url: from
\* sales_list, or by a GET without redirects through _send_web, which
\*   "resp"  returns a response,
\*   "raise" raises (caught by the loop's except: the counters have not moved),
\*   "exit"  exits the process after too many attempts.
ScrapeLoop ==
    /\ mode = "scrape"
    /\ pc = "page"
    /\ IF ~(page_count < scrape_step /\ scrape_page < scrape_limit)
       THEN \* the logs are dumped and scrape_sales returns
            /\ mode' = "idle"
            /\ pc' = "idle"
            /\ ScrapeReset
       ELSE IF page_count < sales_len
       THEN /\ page_count' = page_count + 1
            /\ scrape_page' = scrape_page + 1
            /\ iterations' = iterations + 1
            /\ pc' = "pagefetch"
            /\ UNCHANGED <<mode, owned_list, scrape_limit, scrape_step, sales_len,
                           cells, j, future_sale, stalled>>
       ELSE \E ans \in {"resp", "raise", "exit"} :
              CASE ans = "resp" ->
                     /\ sales_len' = sales_len + 1
                     /\ page_count' = page_count + 1
                     /\ scrape_page' = scrape_page + 1
                     /\ iterations' = iterations + 1
                     /\ pc' = "pagefetch"
                     /\ UNCHANGED <<mode, owned_list, scrape_limit, scrape_step,
                                    cells, j, future_sale, stalled>>
                [] ans = "raise" ->
                     /\ stalled < MaxStalled
                     /\ stalled' = stalled + 1
                     /\ iterations' = iterations + 1
                     /\ UNCHANGED <<mode, pc, owned_list, page_count, scrape_page,
                                    scrape_limit, scrape_step, sales_len, cells, j,
                                    future_sale>>
                [] ans = "exit" ->
                     /\ pc' = "crashed"
                     /\ iterations' = iterations + 1
                     /\ UNCHANGED <<mode, owned_list, page_count, scrape_page,
                                    scrape_limit, scrape_step, sales_len, cells, j,
                                    future_sale, stalled>>
    /\ UNCHANGED <<owned_games, saved, txVars, sweepVars, histVars, ops>>
    /\ UNCHANGED <<webVars, restVars>>

\* r = self._send_web('get', url) and the tests on r.text:
\*   "raise" / "exit" as above; "skip" the sale ended or is not 100% off;
\*   otherwise a page with its game cells (each game once on a page), of a
\*   future or of an active sale.
PageFetch ==
    /\ mode = "scrape"
    /\ pc = "pagefetch"
    /\ \E ans \in {"raise", "exit", "skip", "page"} :
         CASE ans = "raise" -> pc' = "page" /\ UNCHANGED <<cells, j, future_sale>>
           [] ans = "exit"  -> pc' = "crashed" /\ UNCHANGED <<cells, j, future_sale>>
           [] ans = "skip"  -> pc' = "page" /\ UNCHANGED <<cells, j, future_sale>>
           [] ans = "page"  ->
                /\ \E cs \in DistinctSeqsUpTo(Urls, MaxCells) : cells' = cs
                /\ \E f \in BOOLEAN : future_sale' = f
                /\ j' = 1
                /\ pc' = "cell"
    /\ UNCHANGED <<owned_list, page_count, scrape_page, scrape_limit, scrape_step,
                   sales_len, iterations, stalled>>
    /\ UNCHANGED <<mode, owned_games, saved, txVars, sweepVars, histVars, ops>>
    /\ UNCHANGED <<webVars, restVars>>

\* The walk over the game cells of the page: a url not in owned_list is
\* logged when the sale is a future one, and claimed otherwise
\* (ItchGame.from_api(url), which may raise, then user.claim_game(game)).
CellStep ==
    /\ mode = "scrape"
    /\ pc = "cell"
    /\ IF j > Len(cells)
       THEN /\ pc' = "page"
            /\ cells' = <<>>
            /\ j' = 0
            /\ future_sale' = FALSE
            /\ UNCHANGED txVars
       ELSE IF cells[j] \in owned_list \/ future_sale
       THEN /\ j' = j + 1
            /\ UNCHANGED <<pc, cells, future_sale, txVars>>
       ELSE \E ok \in BOOLEAN :
              IF ok
              THEN /\ CallClaimGame(cells[j])
                   /\ UNCHANGED <<cells, j, future_sale>>
              ELSE /\ pc' = "page"
                   /\ cells' = <<>>
                   /\ j' = 0
                   /\ future_sale' = FALSE
                   /\ UNCHANGED txVars
    /\ UNCHANGED <<owned_list, page_count, scrape_page, scrape_limit, scrape_step,
                   sales_len, iterations, stalled>>
    /\ UNCHANGED <<mode, owned_games, saved, sweepVars, histVars, ops>>
    /\ UNCHANGED <<webVars, restVars>>

\* claim_game returned: owned_list was not updated, the url is logged as not
\* claimable and the walk goes on with the next cell
ScrapeReturn ==
    /\ mode = "scrape"
    /\ pc = "ret"
    /\ j' = j + 1
    /\ pc' = "cell"
    /\ TxReset
    /\ UNCHANGED <<owned_list, page_count, scrape_page, scrape_limit, scrape_step,
                   sales_len, cells, future_sale, iterations, stalled>>
    /\ UNCHANGED <<mode, owned_games, saved, sweepVars, histVars, ops>>
    /\ UNCHANGED <<webVars, restVars>>

\* claim_game raised: the except of the page loop prints it; the rest of the
\* page is dropped and the loop goes on with the next page
ScrapeRaise ==
    /\ mode = "scrape"
    /\ pc = "raise"
    /\ pc' = "page"
    /\ cells' = <<>>
    /\ j' = 0
    /\ future_sale' = FALSE
    /\ TxReset
    /\ UNCHANGED <<owned_list, page_count, scrape_page, scrape_limit, scrape_step,
                   sales_len, iterations, stalled>>
    /\ UNCHANGED <<mode, owned_games, saved, sweepVars, histVars, ops>>
    /\ UNCHANGED <<webVars, restVars>>

(***************************************************************************)
(* _claim_reward, as _scrape_profile calls it                              *)
(***************************************************************************)
\* What one reward item of data.json leads to:
\*   "paid"        its price is not 0.00: skipped
\*   "unavailable" free and not available: skipped
\*   "claimed"     negotiated, fetched, submitted: the game is appended
\*   "failed"      a step before the submission raised (leaves the loop)
\*   "rejected"    the submission landed on the home page (raises, leaves the loop)
RewardItems == {"paid", "unavailable", "claimed", "failed", "rejected"}

\* the items the for loop reaches: up to the first one that raises
RECURSIVE Reached(_)
Reached(items) ==
    IF items = <<>> THEN <<>>
    ELSE IF Head(items) \in {"failed", "rejected"} THEN <<Head(items)>>
    ELSE <<Head(items)>> \o Reached(Tail(items))

CountOf(items, kinds) == Cardinality({k \in DOMAIN items : items[k] \in kinds})

\* a claim POST follows a successful claim of the same game
PostAfterClaim(items) ==
    \E k1, k2 \in DOMAIN items :
        /\ k1 < k2
        /\ items[k1] = "claimed"
        /\ items[k2] \in {"claimed", "rejected"}

RECURSIVE AppendTimes(_, _, _)
AppendTimes(s, x, n) == IF n = 0 THEN s ELSE AppendTimes(Append(s, x), x, n - 1)

\* _scrape_profile skips the games _owns_game finds; for the others
\* _claim_reward walks the rewards and appends the game once per claimed one.
ClaimReward ==
    /\ mode = "idle"
    /\ ops < MaxOps
    /\ ops' = ops + 1
    /\ \E url \in Urls, items \in SeqsUpTo(RewardItems, MaxRewards) :
         /\ ~OwnsUrl(owned_games, url)
         /\ LET done == Reached(items)
                n == CountOf(done, {"claimed"})
            IN  /\ owned_games' = AppendTimes(owned_games, url, n)
                /\ succeeded' = IF n > 0 THEN succeeded \cup {url} ELSE succeeded
                /\ rePosted' = (rePosted \/ PostAfterClaim(done))
    /\ UNCHANGED <<mode, pc, saved, txVars, sweepVars, scrapeVars, txClaimed>>
    /\ UNCHANGED <<webVars, restVars>>

(***************************************************************************)
(* claim_url                                                               *)
(***************************************************************************)
\* if self.user is None: return
\* if len(owned_games) == 0: reload_owned_games(); save_session()
ClaimUrlStart ==
    /\ mode = "idle"
    /\ ops < MaxOps
    /\ ops' = ops + 1
    /\ IF NotLoggedIn(user)
       THEN UNCHANGED <<mode, pc, owned_games, saved>>
       ELSE /\ \E lib \in LibrarySnapshots :
                 /\ owned_games' = IF Len(owned_games) = 0
                                   THEN reload_owned_games(lib) ELSE owned_games
                 /\ saved' = IF Len(owned_games) = 0 THEN owned_games' ELSE saved
            /\ mode' = "claim_url"
            /\ pc' = "lookup"
    /\ UNCHANGED <<txVars, sweepVars, scrapeVars, histVars>>
    /\ UNCHANGED <<webVars, restVars>>

\* The url is compared with every owned url: a match ends the call with
\* UnboundLocalError (the message formats game.url before game is assigned).
\* Otherwise game = ItchGame.from_api(url), which
\*   "raise" raises,
\*   "game"  returns the game: user.claim_game(game) is entered.
ClaimUrlLookup ==
    /\ mode = "claim_url"
    /\ pc = "lookup"
    /\ \E url \in Urls, ans \in {"raise", "game"} :
         IF OwnsUrl(owned_games, url) \/ ans = "raise"
         THEN pc' = "crashed" /\ UNCHANGED txVars
         ELSE CallClaimGame(url)
    /\ UNCHANGED <<mode, owned_games, saved, sweepVars, scrapeVars, histVars, ops>>
    /\ UNCHANGED <<webVars, restVars>>

\* claim_game returned: user.claim_reward(game) walks the rewards of the game
\* and appends it once per claimed one; its failures are caught and printed.
\* claim_url returns; it does not save the session.
ClaimUrlReturn ==
    /\ mode = "claim_url"
    /\ pc = "ret"
    /\ \E items \in SeqsUpTo(RewardItems, MaxRewards) :
         LET done == Reached(items)
             n == CountOf(done, {"claimed"})
             posts == CountOf(done, {"claimed", "rejected"})
         IN  /\ owned_games' = AppendTimes(owned_games, g, n)
             /\ succeeded' = IF n > 0 THEN succeeded \cup {g} ELSE succeeded
             /\ rePosted' = (rePosted \/ PostAfterClaim(done)
                                      \/ (posts > 0 /\ g \in succeeded))
    /\ mode' = "idle"
    /\ pc' = "idle"
    /\ TxReset
    /\ UNCHANGED <<saved, sweepVars, scrapeVars, txClaimed, ops>>
    /\ UNCHANGED <<webVars, restVars>>

\* claim_game raised: nothing in claim_url catches it
ClaimUrlRaise ==
    /\ mode = "claim_url"
    /\ pc = "raise"
    /\ pc' = "crashed"
    /\ TxReset
    /\ UNCHANGED <<mode, owned_games, saved, sweepVars, scrapeVars, histVars, ops>>
    /\ UNCHANGED <<webVars, restVars>>

(***************************************************************************)
(* One run of the claim engine                                             *)
(***************************************************************************)
Init == WebIdle /\ ClaimIdle /\ RestParked

\* the claim transaction
NextTx == Negotiate \/ RefreshUrl \/ FetchPage \/ Submit \/ Verify

\* a run of claim sweeps and reward claims
Next ==
    \/ ClaimStart \/ ClaimLoop \/ ClaimReturn \/ ClaimRaise \/ ClaimDone
    \/ NextTx
    \/ ClaimReward

Spec == Init /\ [][Next]_vars

\* a run that may also walk sale pages with scrape_sales and claim single
\* urls with claim_url
NextScrape ==
    \/ Next
    \/ ScrapeStart \/ ScrapeLoop \/ PageFetch \/ CellStep \/ ScrapeReturn
    \/ ScrapeRaise
    \/ ClaimUrlStart \/ ClaimUrlLookup \/ ClaimUrlReturn \/ ClaimUrlRaise

SpecScrape == Init /\ [][NextScrape]_vars

(***************************************************************************)
(* Claims about the claim engine (Spec)                                    *)
(***************************************************************************)

\* C1: a claim requested for a game whose url is in owned_games is a no-op:
\* owned_games stays what it was at the request and no claim-submission POST
\* is issued.
C1_ClaimOfOwnedGameIsNoOp == reqOwned => (owned_games = snap /\ ~posted)

\* C2: once a claim of a game has succeeded, no later claim-submission POST is
\* issued for the same url, in any sequence of sweeps, scrape_sales walks and
\* reward claims of one run.
C2_NeverClaimedTwice == ~rePosted

\* C3: one claim of one game issues at most two download-negotiation POSTs.
C3_AtMostTwoNegotiations == negCount <= 2

\* C4: after the claim submission, on the home page the game is appended
\* exactly when owns_game_online reports it owned (UnknownClaimFailure and an
\* unchanged list otherwise); on any other page it is appended.
C4_Verification ==
    /\ final_url = "home" =>
         /\ online = "yes" =>
              (owned_games = Append(snap, g) /\ outcome = "AlreadyClaimed")
         /\ online = "no" =>
              (owned_games = snap /\ outcome = "UnknownClaimFailure")
         /\ online = "none" => owned_games = snap
    /\ final_url = "other" =>
         (owned_games = Append(snap, g) /\ outcome = "Success")

\* C4 witness: the submission landed on the home page, the ownership probe
\* reported the game owned and the attempt returned.
C4_Witness == pc = "ret" /\ final_url = "home" /\ online = "yes"

\* C5: an attempt that stops before the submission (failed negotiation,
\* negotiation error, no claim box) issues no claim-submission POST and leaves
\* owned_games as it was; owned_games changes in an attempt only after a
\* claim-submission POST of that attempt.
C5_NoSubmissionNoOwnership ==
    /\ (pc = "ret" /\ outcome \in {"CheckFailed", "NegotiationError", "NotClaimable"})
         => (~posted /\ owned_games = snap)
    /\ (resp \in {"exc", "error"} \/ claim_box = "nobox")
         => (~posted /\ owned_games = snap)
    /\ (g # 0 /\ owned_games # snap) => posted

\* C5 witness: an attempt that returned because the download page of a
\* retried negotiation had no claim box.
C5_Witness == pc = "ret" /\ claim_box = "nobox" /\ depth = 1 /\ ~posted

\* C6: when a claim attempt starts, every game the claim transaction claimed
\* earlier in this run has been written by save_session.
C6_PersistedBeforeNextAttempt ==
    (pc = "neg" /\ negCount = 0) => txClaimed \subseteq Range(saved)

\* the games of the feed the sweep has run the loop body for
Attempted == IF pc = "crashed" THEN i ELSE i - 1

\* C7: a sweep that ended has attempted every game of its candidate list.
C7_SweepAttemptsEveryGame ==
    (mode = "claim" /\ pc \in {"done", "crashed"}) => Attempted = Len(games)

\* C29: a sweep starts by reloading and saving the library exactly when
\* owned_games is empty; it then takes the games of the feed in order, each
\* once: a game whose url is in owned_games when it is reached is passed
\* over, any other game is handed to the claim transaction.
C29_SweepWalk ==
    [][ /\ (mode = "idle" /\ mode' = "claim") =>
             /\ Len(owned_games) = 0 =>
                  (owned_games' \in LibrarySnapshots /\ saved' = owned_games')
             /\ Len(owned_games) # 0 =>
                  (owned_games' = owned_games /\ saved' = saved)
             /\ i' = 1
        /\ (mode = "claim" /\ mode' = "claim") => games' = games
        /\ (mode = "claim" /\ pc = "loop" /\ i <= Len(games)) =>
             IF games[i] \in Range(owned_games)
             THEN i' = i + 1 /\ pc' = "loop" /\ g' = 0 /\ negCount' = 0
             ELSE i' = i /\ pc' = "neg" /\ g' = games[i]
        /\ (mode = "claim" /\ pc # "loop" /\ pc' = "loop") => i' = i + 1
        /\ (mode = "claim" /\ pc' = "neg" /\ g = 0) =>
             (pc = "loop" /\ g' = games[i] /\ g' \notin Range(owned_games)) ]_vars

\* C29 witness: a sweep passed over the first game of its feed, which is
\* owned, and handed the second to the claim transaction.
C29_Witness ==
    /\ mode = "claim"
    /\ pc = "neg"
    /\ i = 2
    /\ g = games[2]
    /\ games[1] \in Range(owned_games)
    /\ claimed_games = 0

\* C33: every iteration of the page loop of scrape_sales that the process
\* survives advances page_count and scrape_page by one, also when resolving
\* or fetching the page raised (so the loop ends within scrape_step
\* iterations).
C33_EveryIterationAdvances ==
    [][ (iterations' = iterations + 1 /\ pc' # "crashed") =>
          /\ page_count' = page_count + 1
          /\ scrape_page' = scrape_page + 1 ]_vars

\* C32: the owned list is a set keyed by url: whatever claim operations have
\* run (sweeps with their transactions, reward claims), no url is held by two
\* of its entries.
C32_OwnedKeyedByUrl ==
    \A k1, k2 \in 1..Len(owned_games) :
        k1 # k2 => owned_games[k1] # owned_games[k2]

(***************************************************************************)
(* ItchClaim.__init__ and login (SpecLogin)                                *)
(***************************************************************************)
\* How user.load_session() ends on the session file of the username:
\*   "loaded"             the session was read, the user is the stored one
\*   "FileNotFoundError"  there is no file
\*   "raise"              the file cannot be read as a session
load_session(file) ==
    CASE file = "absent"  -> "FileNotFoundError"
      [] file = "valid"   -> "loaded"
      [] file = "invalid" -> "raise"

\* How user.login(password, totp) can end:
\*   "ok"    authenticated: the username is set and the session is persisted
\*   "none"  it returned without an authenticated user: username is None
\*   "raise" it raised
LoginAnswers == {"ok", "none", "raise"}

\* login: self.user = ItchUser(username); load_session(), and on
\* FileNotFoundError user.login(password, totp). Only FileNotFoundError is
\* caught. The result: how the call ended and what it left behind.
login(file, stored, ans) ==
    LET loaded == load_session(file)
    IN  CASE loaded = "loaded" ->
               [end |-> "returned", username |-> "name", file |-> file,
                owned |-> stored, saved |-> stored, requests |-> 0]
          [] loaded = "raise" ->
               [end |-> "raised", username |-> "name", file |-> file,
                owned |-> <<>>, saved |-> stored, requests |-> 0]
          [] loaded = "FileNotFoundError" ->
               CASE ans = "ok" ->
                      [end |-> "returned", username |-> "name", file |-> "valid",
                       owned |-> <<>>, saved |-> <<>>, requests |-> 1]
                 [] ans = "none" ->
                      [end |-> "returned", username |-> "None", file |-> file,
                       owned |-> <<>>, saved |-> stored, requests |-> 1]
                 [] ans = "raise" ->
                      [end |-> "raised", username |-> "name", file |-> file,
                       owned |-> <<>>, saved |-> stored, requests |-> 1]

\* One call of self.login by the constructor, followed by the test of the
\* while loop: while self.user.username == None.
CtorLoginCall(ans) ==
    LET res == login(session_file, saved, ans)
        authenticated == res.end = "returned" /\ res.username # "None"
    IN  /\ user' = "ItchUser"
        /\ username' = res.username
        /\ session_file' = res.file
        /\ owned_games' = res.owned
        /\ saved' = res.saved
        /\ loginCalls' = loginCalls + 1
        /\ loginRequests' = loginRequests + res.requests
        /\ authFailed' = IF authenticated THEN authFailed ELSE authFailed + 1
        /\ cpc' = IF res.end = "raised" THEN "raised"
                  ELSE IF res.username = "None" THEN "sleep"
                  ELSE "ready"

\* __init__ up to the first test of the while loop
\*   version  --version was given: the version is printed and the process exits
\*   given    a login name was given, as an argument or by ITCH_USERNAME
CtorStart ==
    /\ cpc = "start"
    /\ \E version \in BOOLEAN, given \in BOOLEAN, ans \in LoginAnswers :
         IF version
         THEN /\ cpc' = "exited"
              /\ UNCHANGED <<user, username, session_file, loginCalls,
                             loginRequests, authFailed, owned_games, saved>>
         ELSE IF ~given
         THEN /\ cpc' = "ready"
              /\ user' = "None"
              /\ UNCHANGED <<username, session_file, loginCalls, loginRequests,
                             authFailed, owned_games, saved>>
         ELSE CtorLoginCall(ans)
    /\ UNCHANGED <<mode, pc, txVars, sweepVars, scrapeVars, histVars, ops, reloads>>
    /\ UNCHANGED <<webVars, saleVars, crawlVars, gameVars, schedVars>>

\* the body of the while loop: sleep(1); self.login(login, password, totp)
CtorRetry ==
    /\ cpc = "sleep"
    /\ loginCalls < MaxLogins
    /\ \E ans \in LoginAnswers : CtorLoginCall(ans)
    /\ UNCHANGED <<mode, pc, txVars, sweepVars, scrapeVars, histVars, ops, reloads>>
    /\ UNCHANGED <<webVars, saleVars, crawlVars, gameVars, schedVars>>

\* refresh_library, a command run on the constructed object
RefreshLibrary ==
    /\ cpc = "ready"
    /\ mode = "idle"
    /\ ops < MaxOps
    /\ ops' = ops + 1
    /\ IF NotLoggedIn(user)
       THEN UNCHANGED <<owned_games, saved, reloads>>
       ELSE /\ \E lib \in LibrarySnapshots : owned_games' = reload_owned_games(lib)
            /\ saved' = save_session(owned_games')
            /\ reloads' = reloads + 1
    /\ UNCHANGED <<cpc, user, username, session_file, loginCalls, loginRequests,
                   authFailed>>
    /\ UNCHANGED <<mode, pc, txVars, sweepVars, scrapeVars, histVars>>
    /\ UNCHANGED <<webVars, saleVars, crawlVars, gameVars, schedVars>>

\* The process starts: nothing is constructed, the session file of the
\* username is absent, valid (holding a library) or unreadable.
InitLogin ==
    /\ WebIdle
    /\ EngineIdle
    /\ owned_games = <<>>
    /\ session_file \in {"absent", "valid", "invalid"}
    /\ saved \in (IF session_file = "valid" THEN LibrarySnapshots ELSE {<<>>})
    /\ cpc = "start"
    /\ user = "unset"
    /\ username = "None"
    /\ loginCalls = 0
    /\ loginRequests = 0
    /\ authFailed = 0
    /\ reloads = 0
    /\ SaleParked
    /\ CrawlIdle
    /\ GameIdle
    /\ SchedIdle

\* The commands of a run that was given no login name start on an object
\* without a user (those of a logged-in run are followed by Spec, SpecScrape).
NextLogin ==
    \/ CtorStart \/ CtorRetry \/ RefreshLibrary
    \/ (cpc = "ready" /\ user = "None" /\ (ClaimStart \/ ScrapeStart \/ ClaimUrlStart))

SpecLogin == InitLogin /\ [][NextLogin]_vars

\* C11: a call of login that ends without an authenticated user ends the
\* constructor with that failure: it is the only such call, the constructor
\* has raised, and no library refresh has run.
C11_AuthFailureSurfaced ==
    authFailed > 0 => (cpc = "raised" /\ authFailed = 1 /\ reloads = 0)

\* C30: a call of login performs the login transaction exactly when the
\* session file of the username does not hold a valid session (it is absent,
\* or present but invalid); a session that loads causes no login request.
C30_LoadOrCreate ==
    [][ loginCalls' # loginCalls =>
          /\ session_file # "valid" => loginRequests' = loginRequests + 1
          /\ session_file = "valid" => loginRequests' = loginRequests ]_vars

\* C31: claim, refresh_library, scrape_sales and claim_url, run on an object
\* without a user, return at once: no request is sent, no operation is left
\* running, and the owned list, the saved session, the session file and every
\* cache stay as they were (only the count of commands run moves).
C31_NoUserNoEffect ==
    [][ (user = "None" /\ ops' # ops) =>
          /\ ops' = ops + 1
          /\ UNCHANGED <<mode, pc, owned_games, saved, txVars, sweepVars,
                         scrapeVars, histVars>>
          /\ UNCHANGED <<webVars, restVars>> ]_vars

C31_Witness ==
    /\ user = "None"
    /\ cpc = "ready"
    /\ ops = MaxOps
    /\ mode = "idle"
    /\ session_file = "valid"
    /\ saved # <<>>
    /\ owned_games = <<>>
    /\ reloads = 0

(***************************************************************************)
(* ItchSale (SpecSale)                                                     *)
(***************************************************************************)
\* The dates of a Sale are naive datetimes. Those parsed from the origin's
\* payload carry its utc numerals; datetime.now(), fromtimestamp() and
\* timestamp() work in the machine's local time.
datetime_now(utc) == utc + tz
fromtimestamp(ts) == ts + tz
timestamp(dt) == dt - tz

\* the ids a payload can declare
PayloadIds == 1..(NumSales + 1)

\* What the origin can answer to the request for a promotion page:
\*   the request raises (timeout, connection error);
\*   404, with or without a redirect;
\*   200 with the embedded payload (id, start_date, end_date);
\*   200 or 500 with a page that holds no payload.
Replies ==
    {[NoReply EXCEPT !.status = TransportError]}
    \cup {[NoReply EXCEPT !.status = 404, !.redirected = b] : b \in BOOLEAN}
    \cup {[NoReply EXCEPT !.status = st] : st \in {200, 500}}
    \cup {[status |-> 200, redirected |-> FALSE, payload |-> TRUE,
           id |-> n, start |-> t1, end |-> t2] :
             n \in PayloadIds, t1 \in Times, t2 \in Times}

\* a faulty variant of Classify404: no 404 ends the numeric walk
Classify404NeverTerminal(redirected) == "404_NOT_FOUND"
\* a faulty variant of Classify404: the two classifications are exchanged
Classify404Swapped(redirected) ==
    IF redirected THEN "NO_MORE_SALES_AVAILABLE" ELSE "404_NOT_FOUND"
\* if r.url == sale_url: NO_MORE_SALES_AVAILABLE else: 404_NOT_FOUND
Classify404(redirected) ==
    IF ~redirected THEN "NO_MORE_SALES_AVAILABLE" ELSE "404_NOT_FOUND"

\* a faulty variant of IdMismatch: the declared id is not compared
IdMismatchNever(id, declared) == FALSE
\* if self.id != sale_data['id']
IdMismatch(id, declared) == id # declared

\* get_data_online on the object self, the origin answering a: the object as
\* the call leaves it, and the exception that leaves the call ("none": it
\* returned).
get_data_online(self, a) ==
    IF a.status = TransportError
    THEN [sale |-> self, exc |-> "RequestException"]
    ELSE IF a.status = 404
    THEN [sale |-> [self EXCEPT !.err = Classify404(a.redirected)], exc |-> "none"]
    ELSE IF ~a.payload
    THEN [sale |-> self, exc |-> "IndexError"]
    ELSE LET dated == [self EXCEPT !.start = a.start, !.end = a.end]
         IN  IF IdMismatch(self.id, a.id)
             THEN [sale |-> dated, exc |-> "ValueError"]
             ELSE [sale |-> dated, exc |-> "none"]

\* __init__ up to the test "if not start or not end"
NewSale(id, end, start) == [id |-> id, start |-> start, end |-> end, err |-> "None"]

\* whether __init__ goes on to get_data_online
NeedsData(start, end) == start = NoDate \/ end = NoDate

\* serialize(): int(self.start.timestamp()), int(self.end.timestamp())
serialize(sale) ==
    [id |-> sale.id, start |-> timestamp(sale.start), end |-> timestamp(sale.end)]

\* The except KeyError branch of from_dict after the cache was missed, the
\* origin answering a: the Sale returned and cached, or the exception.
Repair(dict, a) ==
    LET made == get_data_online(NewSale(dict.id, NoDate, NoDate), a)
        sale == made.sale
    IN  IF made.exc # "none"
        THEN [sale |-> NoSale, exc |-> made.exc]
        ELSE IF sale.err = "None"
        THEN [sale |-> [sale EXCEPT !.err = "STATUS_UPDATED"], exc |-> "none"]
        ELSE IF dict.end = NoDate
        THEN IF dict.start = NoDate
             THEN \* dict['start'] raises KeyError inside the handler
                  [sale |-> NoSale, exc |-> "KeyError"]
             ELSE [sale |-> [sale EXCEPT !.start = fromtimestamp(dict.start),
                                         !.end = fromtimestamp(dict.start),
                                         !.err = "STATUS_UPDATED"],
                   exc |-> "none"]
        ELSE IF dict.start = NoDate
        THEN [sale |-> [sale EXCEPT !.end = fromtimestamp(dict.end),
                                    !.start = fromtimestamp(dict.end),
                                    !.err = "STATUS_UPDATED"],
              exc |-> "none"]
        ELSE [sale |-> [sale EXCEPT !.err = "STATUS_UPDATED"], exc |-> "none"]

\* is_active: datetime.now() < self.end
is_active(sale, utc) == datetime_now(utc) < sale.end

\* is_upcoming: datetime.now() < self.start
is_upcoming(sale, utc) == datetime_now(utc) < sale.start

\* a faulty variant of InCache: the cache is never consulted
InCacheNever(cache, id) == FALSE
\* if (id in ItchSale.cached_sales)
InCache(cache, id) == cache[id] # NoSale

\* a call begins
SaleCall(op, a) ==
    /\ spc \in {"idle", "returned", "raised", "serialize_raised"}
    /\ calls < MaxSaleCalls
    /\ calls' = calls + 1
    /\ sop' = op
    /\ arg' = a
    /\ reply' = NoReply
    /\ serialized' = NoRecord

\* ItchSale(id, end, start): with both dates given the object is returned as
\* built, otherwise get_data_online is run.
CallItchSale ==
    /\ \E id \in SaleIds, end \in Times \cup {NoDate}, start \in Times \cup {NoDate} :
         /\ SaleCall("ItchSale", [id |-> id, start |-> start, end |-> end])
         /\ IF NeedsData(start, end)
            THEN spc' = "fetch" /\ ret' = NoSale
            ELSE spc' = "returned" /\ ret' = NewSale(id, end, start)
    /\ exc' = "none"
    /\ UNCHANGED <<tz, cached_sales, fetches, refetches>>
    /\ UNCHANGED <<webVars, claimVars, loginVars, crawlVars, gameVars, schedVars>>

\* from_dict(dict): a record with both dates is turned into a Sale; a record
\* that misses one is looked up in cached_sales, and refetched when not there.
CallFromDict ==
    /\ \E id \in SaleIds, end \in Times \cup {NoDate}, start \in Times \cup {NoDate} :
         /\ SaleCall("from_dict", [id |-> id, start |-> start, end |-> end])
         /\ IF ~NeedsData(start, end)
            THEN /\ spc' = "returned"
                 /\ ret' = NewSale(id, fromtimestamp(end), fromtimestamp(start))
            ELSE IF InCache(cached_sales, id)
            THEN /\ spc' = "returned"
                 /\ ret' = cached_sales[id]
            ELSE /\ spc' = "fetch"
                 /\ ret' = NoSale
    /\ exc' = "none"
    /\ UNCHANGED <<tz, cached_sales, fetches, refetches>>
    /\ UNCHANGED <<webVars, claimVars, loginVars, crawlVars, gameVars, schedVars>>

\* The request of get_data_online is answered and the call runs to its end.
SaleFetch ==
    /\ spc = "fetch"
    /\ fetches' = fetches + 1
    /\ refetches' = IF sop = "from_dict"
                    THEN [refetches EXCEPT ![arg.id] = @ + 1]
                    ELSE refetches
    /\ \E a \in Replies :
         /\ reply' = a
         /\ IF sop = "ItchSale"
            THEN LET made == get_data_online(NewSale(arg.id, arg.end, arg.start), a)
                 IN  /\ exc' = made.exc
                     /\ spc' = IF made.exc = "none" THEN "returned" ELSE "raised"
                     /\ ret' = IF made.exc = "none" THEN made.sale ELSE NoSale
                     /\ UNCHANGED cached_sales
            ELSE LET made == Repair(arg, a)
                 IN  /\ exc' = made.exc
                     /\ spc' = IF made.exc = "none" THEN "returned" ELSE "raised"
                     /\ ret' = made.sale
                     /\ cached_sales' = IF made.exc = "none"
                                        THEN [cached_sales EXCEPT ![arg.id] = made.sale]
                                        ELSE cached_sales
    /\ UNCHANGED <<tz, sop, arg, serialized, calls>>
    /\ UNCHANGED <<webVars, claimVars, loginVars, crawlVars, gameVars, schedVars>>

\* serialize() of the Sale a call returned (None.timestamp() raises)
SaleSerialize ==
    /\ spc = "returned"
    /\ serialized = NoRecord
    /\ IF ret.start = NoDate \/ ret.end = NoDate
       THEN /\ spc' = "serialize_raised"
            /\ exc' = "AttributeError"
            /\ UNCHANGED serialized
       ELSE /\ serialized' = serialize(ret)
            /\ UNCHANGED <<spc, exc>>
    /\ UNCHANGED <<tz, sop, arg, reply, ret, cached_sales, fetches, refetches, calls>>
    /\ UNCHANGED <<webVars, claimVars, loginVars, crawlVars, gameVars, schedVars>>

InitSale ==
    /\ WebIdle
    /\ ClaimParked
    /\ LoggedIn
    /\ CrawlIdle
    /\ SaleIdle
    /\ tz \in Offsets
    /\ GameIdle
    /\ SchedIdle

NextSale == CallItchSale \/ CallFromDict \/ SaleFetch \/ SaleSerialize

SpecSale == InitSale /\ [][NextSale]_vars

(***************************************************************************)
(* Claims about ItchSale (SpecSale)                                        *)
(***************************************************************************)
\* the utc instants at which the status of a Sale is asked
Instants == 0..(MaxTime + 1)

\* the call has ended by returning a Sale that has both its dates
ReturnedDated == spc = "returned" /\ ret.start # NoDate /\ ret.end # NoDate

\* C15: of a promotion page fetched by the constructor, the Sale is classified
\* NO_MORE_SALES_AVAILABLE exactly when the status is 404 and the final url
\* is the requested one, 404_NOT_FOUND exactly when the status is 404 and the
\* final url differs; in both cases the call returns and start and end stay
\* what the constructor was given; no other answer produces a classification.
C15_Classification ==
    (sop = "ItchSale" /\ reply # NoReply) =>
        /\ ret.err = "NO_MORE_SALES_AVAILABLE"
             <=> (reply.status = 404 /\ ~reply.redirected)
        /\ ret.err = "404_NOT_FOUND"
             <=> (reply.status = 404 /\ reply.redirected)
        /\ reply.status = 404 =>
             /\ spc # "raised"
             /\ ret.id = arg.id
             /\ ret.start = arg.start
             /\ ret.end = arg.end

\* C15 witness: a constructor given only a start date, the page answering 404
\* after a redirect.
C15_Witness ==
    /\ sop = "ItchSale"
    /\ spc = "returned"
    /\ reply.status = 404
    /\ reply.redirected
    /\ ret.err = "404_NOT_FOUND"
    /\ arg.start # NoDate

\* C16: when the payload fetched for an id declares another id, the call
\* raises ValueError: no Sale is returned, cached_sales is left as it was and
\* nothing is serialized, in the constructor and in the repair of from_dict.
C16_MismatchNeverAccepted ==
    [][ (spc = "fetch" /\ reply'.status = 200 /\ reply'.payload
            /\ reply'.id # arg.id) =>
          /\ spc' = "raised"
          /\ exc' = "ValueError"
          /\ ret' = NoSale
          /\ cached_sales' = cached_sales
          /\ serialized' = NoRecord ]_vars

\* C16 witness: the repair of a record that lacks its end date met a payload
\* declaring another id.
C16_Witness ==
    /\ sop = "from_dict"
    /\ spc = "raised"
    /\ exc = "ValueError"
    /\ arg.start # NoDate
    /\ reply.id # arg.id
    /\ cached_sales[arg.id] = NoSale

\* C17: a Sale built from an origin payload or from a persisted record, by
\* the constructor or by from_dict, has start <= end when it is returned
\* and when it is serialized.
C17_StartNotAfterEnd ==
    (sop = "from_dict" \/ reply # NoReply) =>
        /\ ReturnedDated => ret.start <= ret.end
        /\ serialized # NoRecord => serialized.start <= serialized.end

\* C18: at every instant a Sale (with start <= end) is active exactly when
\* start <= now < end and upcoming exactly when now < start, and never both.
C18_StatusPartition ==
    (ReturnedDated /\ ret.start <= ret.end) =>
        \A u \in Instants :
            /\ is_active(ret, u)
                 <=> (ret.start <= datetime_now(u) /\ datetime_now(u) < ret.end)
            /\ is_upcoming(ret, u) <=> datetime_now(u) < ret.start
            /\ ~(is_active(ret, u) /\ is_upcoming(ret, u))

\* C19: a Sale crawled from a payload with id n, start s and end e (s <= e)
\* keeps those fields, and at every instant at or after e it is neither
\* active nor upcoming.
C19_CrawledSaleExpires ==
    (sop = "ItchSale" /\ spc = "returned" /\ NeedsData(arg.start, arg.end)
        /\ reply.status = 200 /\ reply.start <= reply.end) =>
        /\ ret.id = reply.id
        /\ (arg.start = NoDate /\ arg.end = NoDate) =>
             (ret.start = reply.start /\ ret.end = reply.end)
        /\ \A u \in Instants :
             u >= reply.end => (~is_active(ret, u) /\ ~is_upcoming(ret, u))

\* C20: from_dict on a record that lacks start, end or both returns a Sale
\* flagged for repair, whether the origin answers with the page of that id, with
\* 404 (redirected or not), or is not asked because the Sale is in the cache.
C20_LegacyReadNeverFails ==
    (/\ sop = "from_dict"
     /\ NeedsData(arg.start, arg.end)
     /\ spc \in {"returned", "raised"}
     /\ \/ reply = NoReply
        \/ reply.status = 404
        \/ (reply.status = 200 /\ reply.payload /\ reply.id = arg.id))
    => (spc = "returned" /\ ret.err = "STATUS_UPDATED")

\* C21: the repair of a record that misses start or end returns, when the
\* refetch answers 404, a Sale whose start and end are both the timestamp of
\* the record and on which the not-found outcome is still to be seen (err is
\* one of the two classifications of a 404); when the refetch brings the page,
\* start and end are those of the payload.
C21_RemovedRepair ==
    (sop = "from_dict" /\ spc = "returned" /\ reply # NoReply) =>
        /\ reply.status = 404 =>
             /\ ret.start = fromtimestamp(IF arg.end = NoDate THEN arg.start
                                          ELSE arg.end)
             /\ ret.end = ret.start
             /\ ret.err \in {"NO_MORE_SALES_AVAILABLE", "404_NOT_FOUND"}
        /\ reply.status = 200 =>
             /\ ret.start = reply.start
             /\ ret.end = reply.end

\* C22 as claimed: of the from_dict calls on records of one id that miss a
\* date, at most one issues a refetch.
C22_OneRefetchPerId == \A n \in SaleIds : refetches[n] <= 1

\* C22: once from_dict has cached the repaired Sale of an id, the entry is
\* never replaced, and every later from_dict call on a record of that id that
\* misses a date returns that Sale without a request.
C22_RepairedOnce ==
    [][ \A n \in SaleIds :
          cached_sales[n] # NoSale =>
            /\ cached_sales'[n] = cached_sales[n]
            /\ (calls' # calls /\ sop' = "from_dict" /\ arg'.id = n
                  /\ NeedsData(arg'.start, arg'.end)) =>
                 /\ spc' = "returned"
                 /\ ret' = cached_sales[n]
                 /\ refetches' = refetches
                 /\ fetches' = fetches ]_vars

\* C22 witness: the second from_dict call on a record that misses a date was
\* answered from the cache, the first having been repaired by a refetch.
C22_Witness ==
    /\ sop = "from_dict"
    /\ calls = 2
    /\ spc = "returned"
    /\ NeedsData(arg.start, arg.end)
    /\ reply = NoReply
    /\ ret = cached_sales[arg.id]
    /\ refetches[arg.id] = 1

(***************************************************************************)
(* refresh_sale_cache (SpecCrawl)                                          *)
(*                                                                         *)
(* refresh_sale_cache reads the Resume Cursor and hands it to              *)
(* DiskManager.get_all_sales, then runs DiskManager.get_all_sale_pages for *)
(* each category. The walk over the promotion ids and the re-scan follow   *)
(* the crawler's state machine per promotion id; the page of an id is      *)
(* fetched and classified by ItchSale(id).                                 *)
(***************************************************************************)
\* the categories of the re-scan
NumCategories == 9

\* a faulty variant of ReadResume: the file is not read
ReadResumeAlwaysOne(file) == 1
\* a faulty variant of ReadResume: the walk resumes one id too far
ReadResumeSkipsOne(file) == IF file = NoCursor THEN 1 ELSE file + 1
\* resume = 1; try: resume = int(f.read()) except FileNotFoundError: pass
ReadResume(file) == IF file = NoCursor THEN 1 ELSE file

\* what the origin can answer to the request for the page of promotion id:
\* a failed request, 404 with or without a redirect, 500 with a page that
\* holds no payload, the page with a payload declaring this id or another one
CrawlReplies(id) ==
    {[NoReply EXCEPT !.status = TransportError], [NoReply EXCEPT !.status = 500]}
    \cup {[NoReply EXCEPT !.status = 404, !.redirected = b] : b \in BOOLEAN}
    \cup {[status |-> 200, redirected |-> FALSE, payload |-> TRUE,
           id |-> d, start |-> 0, end |-> MaxTime] : d \in {id, id + 1}}

\* How the crawler goes on from the Sale that ItchSale(id) made:
\*   "crash"  the request failed for good: the run ends
\*   "stop"   NoMoreSalesAvailable: the numeric walk ends at this id
\*   "skip"   NotFoundOther or SaleIdMismatch: logged, the walk moves on
\*   "sale"   a Sale to upsert
Classified(made) ==
    IF made.exc \in {"RequestException", "IndexError"} THEN "crash"
    ELSE IF made.exc = "ValueError" THEN "skip"
    ELSE IF made.sale.err = "NO_MORE_SALES_AVAILABLE" THEN "stop"
    ELSE IF made.sale.err = "404_NOT_FOUND" THEN "skip"
    ELSE "sale"

\* what refresh_sale_cache can be given as sales: None, or a list of
\* distinct promotion ids (the empty list among them)
SalesArgs ==
    {NoSales} \cup {[given |-> TRUE, ids |-> sel] :
                      sel \in DistinctSeqsUpTo(1..MaxSaleId, MaxSaleId)}

\* if sales: (None and the empty list are both false)
OnlySelected(list) == list.given /\ list.ids # <<>>

\* refresh_sale_cache when 'if sales' is false: the cursor is read and the
\* numeric walk starts at it
RefreshStart ==
    /\ rpc \in {"idle", "done", "crashed"}
    /\ runs < MaxRuns
    /\ runs' = runs + 1
    /\ \E list \in SalesArgs : ~OnlySelected(list) /\ sales' = list
    /\ resume' = ReadResume(resume_index)
    /\ pid' = resume'
    /\ rpc' = "walk"
    /\ category' = 0
    /\ requested' = {}
    /\ startCursor' = resume_index
    /\ processedMax' = 0
    /\ UNCHANGED <<resume_index, sales_db, games_db, prevCrashAt, prevStopAt>>
    /\ UNCHANGED <<webVars, claimVars, loginVars, saleVars, gameVars, schedVars>>

\* refresh_sale_cache when 'if sales' is true: get_one_sale for each id of
\* the list, and nothing else
RefreshSelected ==
    /\ rpc \in {"idle", "done", "crashed"}
    /\ runs < MaxRuns
    /\ runs' = runs + 1
    /\ \E list \in SalesArgs :
         /\ OnlySelected(list)
         /\ sales' = list
         /\ \E found \in SUBSET Range(list.ids) :
              /\ sales_db' = sales_db \cup found
              /\ games_db' = games_db \cup found
    /\ rpc' = "done"
    /\ category' = 0
    /\ requested' = {}
    /\ startCursor' = resume_index
    /\ processedMax' = 0
    /\ UNCHANGED <<resume_index, resume, pid, prevCrashAt, prevStopAt>>
    /\ UNCHANGED <<webVars, claimVars, loginVars, saleVars, gameVars, schedVars>>

\* steps 1 to 4 for the id the walk is at: the page is requested and classified
WalkFetch ==
    /\ rpc = "walk"
    /\ requested' = requested \cup {pid}
    /\ \E a \in CrawlReplies(pid) :
         LET made == get_data_online(NewSale(pid, NoDate, NoDate), a)
             how == Classified(made)
         IN  /\ reply' = a
             /\ how \in {"skip", "sale"} => pid <= MaxSaleId
             /\ CASE how = "crash" ->
                       /\ rpc' = "crashed"
                       /\ prevCrashAt' = pid
                       /\ prevStopAt' = 0
                       /\ UNCHANGED <<resume_index, pid, category, processedMax>>
                  [] how = "stop" ->
                       /\ rpc' = "rescan"
                       /\ category' = 1
                       /\ prevStopAt' = pid
                       /\ prevCrashAt' = 0
                       /\ UNCHANGED <<resume_index, pid, processedMax>>
                  [] how = "skip" ->
                       /\ resume_index' = pid + 1
                       /\ processedMax' = pid
                       /\ pid' = pid + 1
                       /\ prevCrashAt' = 0
                       /\ prevStopAt' = 0
                       /\ UNCHANGED <<rpc, category>>
                  [] how = "sale" ->
                       /\ rpc' = "upsert"
                       /\ prevCrashAt' = 0
                       /\ prevStopAt' = 0
                       /\ UNCHANGED <<resume_index, pid, category, processedMax>>
    /\ UNCHANGED <<resume, sales_db, games_db, startCursor, runs, sales>>
    /\ UNCHANGED <<tz, spc, sop, arg, ret, exc, cached_sales, serialized, fetches,
                 refetches, calls>>
    /\ UNCHANGED <<webVars, claimVars, loginVars, gameVars, schedVars>>

\* step 5: the Sale and the Games of its listing pages are upserted
WalkUpsert ==
    /\ rpc = "upsert"
    /\ sales_db' = sales_db \cup {pid}
    /\ games_db' = games_db \cup {pid}
    /\ rpc' = "advance"
    /\ UNCHANGED <<resume_index, resume, pid, category, requested, startCursor,
                   processedMax, prevCrashAt, prevStopAt, runs, sales>>
    /\ UNCHANGED <<webVars, claimVars, loginVars, saleVars, gameVars, schedVars>>

\* step 6: the cursor is advanced to the next id and persisted
WalkAdvance ==
    /\ rpc = "advance"
    /\ resume_index' = pid + 1
    /\ processedMax' = pid
    /\ pid' = pid + 1
    /\ rpc' = "walk"
    /\ UNCHANGED <<resume, category, sales_db, games_db, requested, startCursor,
                   prevCrashAt, prevStopAt, runs, sales>>
    /\ UNCHANGED <<webVars, claimVars, loginVars, saleVars, gameVars, schedVars>>

\* get_all_sale_pages(category): the Sales found on the listing of one
\* category are upserted; after the last category refresh_sale_cache returns
Rescan ==
    /\ rpc = "rescan"
    /\ \E found \in SUBSET (1..MaxSaleId) :
         /\ sales_db' = sales_db \cup found
         /\ games_db' = games_db \cup found
    /\ IF category = NumCategories
       THEN rpc' = "done" /\ UNCHANGED category
       ELSE category' = category + 1 /\ UNCHANGED rpc
    /\ UNCHANGED <<resume_index, resume, pid, requested, startCursor, processedMax,
                   prevCrashAt, prevStopAt, runs, sales>>
    /\ UNCHANGED <<webVars, claimVars, loginVars, saleVars, gameVars, schedVars>>

\* the process dies in the middle of a run
CrawlCrash ==
    /\ rpc \in {"walk", "upsert", "advance", "rescan"}
    /\ rpc' = "crashed"
    /\ prevCrashAt' = IF category = 0 THEN pid ELSE prevCrashAt
    /\ prevStopAt' = IF category = 0 THEN 0 ELSE prevStopAt
    /\ UNCHANGED <<resume_index, resume, pid, category, sales_db, games_db,
                   requested, startCursor, processedMax, runs, sales>>
    /\ UNCHANGED <<webVars, claimVars, loginVars, saleVars, gameVars, schedVars>>

InitCrawl ==
    /\ WebIdle /\ ClaimParked /\ LoggedIn /\ SaleParked /\ CrawlIdle
    /\ GameIdle /\ SchedIdle

NextCrawl ==
    \/ RefreshStart \/ RefreshSelected
    \/ WalkFetch \/ WalkUpsert \/ WalkAdvance
    \/ Rescan \/ CrawlCrash

SpecCrawl == InitCrawl /\ [][NextCrawl]_vars

(***************************************************************************)
(* Claims about the Resume Cursor (SpecCrawl)                              *)
(***************************************************************************)
\* the numeric walk of this run has ended and its re-scan is over
RunSucceeded == rpc = "done" /\ category = NumCategories

\* the run has read the cursor and has not requested a page yet
WalkStarting == rpc = "walk" /\ requested = {}

\* C12: over any sequence of runs the persisted cursor never decreases; the
\* numeric walk of a run that started with cursor N (1 when there was no
\* file) requests no id below N; and when a run has succeeded the cursor is
\* the highest id the run fully processed plus one (the cursor it started
\* with when it processed none).
C12_CursorMonotone ==
    [][ /\ resume_index' >= resume_index
        /\ \A k \in requested' :
             k >= (IF startCursor' = NoCursor THEN 1 ELSE startCursor')
        /\ RunSucceeded' =>
             resume_index' = (IF processedMax' = 0 THEN startCursor'
                              ELSE processedMax' + 1) ]_vars

\* C12 witness: a second run that resumed from a persisted cursor, processed
\* ids from there on and succeeded.
C12_Witness ==
    /\ RunSucceeded
    /\ runs >= 2
    /\ startCursor >= 2
    /\ processedMax >= startCursor
    /\ resume_index = processedMax + 1

\* C13: the cursor is persisted as n + 1 only by the step that follows the
\* upsert of the Sale for n and of its Games (or by the skip of n); while n is
\* being processed, and after a crash at n, the persisted cursor is at most
\* n, and the run after a crash at n starts its walk at n or before.
C13_CursorAfterUpsert ==
    [][ /\ resume_index' # resume_index =>
             /\ resume_index' = pid + 1
             /\ rpc \in {"advance", "walk"}
             /\ rpc = "advance" => (pid \in sales_db /\ pid \in games_db)
        /\ (rpc' \in {"walk", "upsert", "advance"}
              \/ (rpc' = "crashed" /\ category' = 0)) => resume_index' <= pid'
        /\ (WalkStarting' /\ prevCrashAt' # 0) => pid' <= prevCrashAt' ]_vars

\* C13 witness: a run crashed between the upsert of Sale n and the persisting
\* of the cursor; the next run starts at n.
C13_Witness ==
    /\ WalkStarting
    /\ runs = 2
    /\ prevCrashAt >= 2
    /\ pid = prevCrashAt
    /\ resume_index = pid
    /\ pid \in sales_db

\* C14: when the page of id n answers 404 without a redirect the numeric walk
\* ends at n and the persisted cursor stays where it was, at most n; the
\* re-scan that follows leaves the cursor as it is; and the next numeric walk
\* starts by requesting n.
C14_NotFoundStopsWalk ==
    [][ /\ (rpc = "walk" /\ requested' # requested
              /\ reply'.status = 404 /\ ~reply'.redirected) =>
             /\ rpc' = "rescan"
             /\ pid' = pid
             /\ resume_index' = resume_index
             /\ resume_index' <= pid
        /\ rpc = "rescan" => resume_index' = resume_index
        /\ (WalkStarting' /\ prevStopAt' # 0) => pid' = prevStopAt' ]_vars

\* C14 witness: a run whose walk had stopped at id n on a 404 without
\* redirect ran its re-scan; the next run is about to request n.
C14_Witness ==
    /\ WalkStarting
    /\ runs >= 2
    /\ prevStopAt >= 2
    /\ pid = prevStopAt
    /\ reply.status = 404
    /\ ~reply.redirected
    /\ games_db # {}

\* C34: a run of refresh_sale_cache that was given a list of sale ids
\* refreshes the ids of the list and nothing else: it returns without a
\* numeric walk or a re-scan, the Resume Cursor is neither read nor written,
\* and only Sales and Games of the listed ids are upserted.
C34_ExplicitListOnly ==
    [][ sales'.given =>
          /\ rpc' \in {"idle", "done", "crashed"}
          /\ resume_index' = resume_index
          /\ resume' = resume
          /\ requested' = {}
          /\ (sales_db' \ sales_db) \subseteq Range(sales'.ids)
          /\ (games_db' \ games_db) \subseteq Range(sales'.ids) ]_vars

(***************************************************************************)
(* ItchGame (SpecGame)                                                     *)
(*                                                                         *)
(* One Game object, its two probed fields (cached_property claimable and   *)
(* sale_end), and its file in the games directory.                         *)
(***************************************************************************)
\* most calls on the Game object in one run
MaxGameOps == 2

\* the object from_div returns for a cell with or without a price
from_div(price) ==
    [has |-> {"id", "name", "url", "cover_image", "price"},
     val |-> [NoVals EXCEPT !.id = 1, !.name = "name", !.url = "url",
                            !.cover_image = "img", !.price = price]]

\* self.<field> = value
SetField(self, field, value) ==
    [has |-> self.has \cup {field}, val |-> [self.val EXCEPT ![field] = value]]

\* what the origin can make of the probe of claimable: the request or the
\* parsing raises, or the page decides the value
ClaimableAnswers ==
    {[ok |-> FALSE, value |-> FALSE]} \cup {[ok |-> TRUE, value |-> b] : b \in BOOLEAN}

\* what the origin can make of the probe of sale_end: the request or the
\* parsing raises (a game with no sale has no end_date), or a date
SaleEndAnswers ==
    {[ok |-> FALSE, value |-> NoDate]} \cup {[ok |-> TRUE, value |-> t] : t \in Times}

\* a faulty variant of Cached: the value is never found in the object
CachedNever(self, field) == FALSE
\* cached_property.__get__: the value is in the object's __dict__
Cached(self, field) == field \in self.has

\* Reading a cached_property of self, the origin answering ans: the object
\* after the read, the exception that left it, the requests issued.
cached_get(self, field, ans) ==
    IF Cached(self, field)
    THEN [game |-> self, exc |-> "none", requests |-> 0, hits |-> 1]
    ELSE IF ~ans.ok
    THEN [game |-> self, exc |-> "Exception", requests |-> 1, hits |-> 0]
    ELSE [game |-> SetField(self, field, ans.value), exc |-> "none", requests |-> 1,
          hits |-> 0]

\* json.dumps of the dict of save_to_disk: sale_end as int(timestamp()), a
\* tuple as a list of the same nesting
DumpGame(self) ==
    [exists |-> TRUE, has |-> Fields,
     val |-> [self.val EXCEPT !.sale_end = timestamp(@)]]

\* save_to_disk: the dict is built attribute by attribute in the order of the
\* literal (claimable and sale_end are probed when not cached, an attribute
\* that was never set raises AttributeError) and then written.
save_to_disk(self, file, ca, sa) ==
    LET c == cached_get(self, "claimable", ca)
        e == cached_get(c.game, "sale_end", sa)
        one == [requests |-> [claimable |-> c.requests, sale_end |-> 0],
                hits |-> [claimable |-> c.hits, sale_end |-> 0]]
        two == [requests |-> [claimable |-> c.requests, sale_end |-> e.requests],
                hits |-> [claimable |-> c.hits, sale_end |-> e.hits]]
    IN  IF ~({"id", "name", "url", "price"} \subseteq self.has)
        THEN [game |-> self, file |-> file, exc |-> "AttributeError",
              reads |-> [requests |-> NoProbes, hits |-> NoProbes]]
        ELSE IF c.exc # "none"
        THEN [game |-> c.game, file |-> file, exc |-> c.exc, reads |-> one]
        ELSE IF "sale_id" \notin c.game.has
        THEN [game |-> c.game, file |-> file, exc |-> "AttributeError", reads |-> one]
        ELSE IF e.exc # "none"
        THEN [game |-> e.game, file |-> file, exc |-> e.exc, reads |-> two]
        ELSE IF "cover_image" \notin e.game.has
        THEN [game |-> e.game, file |-> file, exc |-> "AttributeError", reads |-> two]
        ELSE [game |-> e.game, file |-> DumpGame(e.game), exc |-> "none",
              reads |-> two]

\* self.sale_id = data['sale_id'],   (the trailing comma makes a 1-tuple)
LoadedSaleId(v) == [v EXCEPT !.wraps = @ + 1]

\* load_from_disk: every key is read with data[key]
load_from_disk(file) ==
    IF ~file.exists
    THEN [game |-> NoGame, exc |-> "FileNotFoundError"]
    ELSE IF file.has # Fields
    THEN [game |-> NoGame, exc |-> "KeyError"]
    ELSE [game |-> [has |-> Fields,
                    val |-> [file.val EXCEPT !.sale_id = LoadedSaleId(@),
                                             !.sale_end = fromtimestamp(@)]],
          exc |-> "none"]

\* a call begins
GameCall(op) ==
    /\ gpc \in {"idle", "returned", "raised"}
    /\ gops < MaxGameOps
    /\ gops' = gops + 1
    /\ gop' = op

\* game.claimable is read
ReadClaimable ==
    /\ GameCall("claimable")
    /\ \E ans \in ClaimableAnswers :
         LET got == cached_get(game, "claimable", ans)
         IN  /\ game' = got.game
             /\ gexc' = got.exc
             /\ gpc' = IF got.exc = "none" THEN "returned" ELSE "raised"
             /\ probes' = [probes EXCEPT !.claimable = @ + got.requests]
             /\ hits' = [hits EXCEPT !.claimable = @ + got.hits]
    /\ UNCHANGED <<origin, game_file, written>>
    /\ UNCHANGED <<webVars, claimVars, loginVars, saleVars, crawlVars, schedVars>>

\* game.sale_end is read
ReadSaleEnd ==
    /\ GameCall("sale_end")
    /\ \E ans \in SaleEndAnswers :
         LET got == cached_get(game, "sale_end", ans)
         IN  /\ game' = got.game
             /\ gexc' = got.exc
             /\ gpc' = IF got.exc = "none" THEN "returned" ELSE "raised"
             /\ probes' = [probes EXCEPT !.sale_end = @ + got.requests]
             /\ hits' = [hits EXCEPT !.sale_end = @ + got.hits]
    /\ UNCHANGED <<origin, game_file, written>>
    /\ UNCHANGED <<webVars, claimVars, loginVars, saleVars, crawlVars, schedVars>>

\* game.save_to_disk()
SaveToDisk ==
    /\ GameCall("save_to_disk")
    /\ \E ca \in ClaimableAnswers, sa \in SaleEndAnswers :
         LET made == save_to_disk(game, game_file, ca, sa)
         IN  /\ game' = made.game
             /\ game_file' = made.file
             /\ gexc' = made.exc
             /\ gpc' = IF made.exc = "none" THEN "returned" ELSE "raised"
             /\ probes' = [f \in DOMAIN probes |-> probes[f] + made.reads.requests[f]]
             /\ hits' = [f \in DOMAIN hits |-> hits[f] + made.reads.hits[f]]
             /\ written' = IF made.exc = "none" THEN made.game ELSE written
    /\ UNCHANGED origin
    /\ UNCHANGED <<webVars, claimVars, loginVars, saleVars, crawlVars, schedVars>>

\* game = ItchGame.load_from_disk(path): a new object
LoadFromDisk ==
    /\ GameCall("load_from_disk")
    /\ LET made == load_from_disk(game_file)
       IN  /\ gexc' = made.exc
           /\ IF made.exc = "none"
              THEN /\ gpc' = "returned"
                   /\ game' = made.game
                   /\ origin' = "load_from_disk"
                   /\ probes' = NoProbes
                   /\ hits' = NoProbes
              ELSE /\ gpc' = "raised"
                   /\ UNCHANGED <<game, origin, probes, hits>>
    /\ UNCHANGED <<game_file, written>>
    /\ UNCHANGED <<webVars, claimVars, loginVars, saleVars, crawlVars, schedVars>>

\* the file an earlier version of the program left for the game: any of the
\* eight keys may be missing
LegacyFiles ==
    {[exists |-> TRUE, has |-> S,
      val |-> [id |-> 1, name |-> "name", url |-> "url", price |-> 1,
               claimable |-> TRUE, sale_id |-> Scalar(1), sale_end |-> 0,
               cover_image |-> "img"]] : S \in SUBSET Fields}

\* A Game made by from_div, its sale_id set or not by the caller, the games
\* directory holding no file for it; or a Game just made by from_div and the
\* file an earlier run left for it.
InitGame ==
    /\ WebIdle
    /\ ClaimParked
    /\ LoggedIn
    /\ SaleIdle
    /\ tz \in Offsets
    /\ CrawlIdle
    /\ SchedIdle
    /\ gpc = "idle"
    /\ gop = "none"
    /\ \/ /\ game_file = NoFile
          /\ \E price \in {NoPrice, 1} :
               \/ game = from_div(price)
               \/ \E n \in SaleIds :
                    game = SetField(from_div(price), "sale_id", Scalar(n))
       \/ /\ game_file \in LegacyFiles
          /\ game = from_div(NoPrice)
    /\ origin = "from_div"
    /\ gexc = "none"
    /\ probes = NoProbes
    /\ hits = NoProbes
    /\ written = NoGame
    /\ gops = 0

NextGame == ReadClaimable \/ ReadSaleEnd \/ SaveToDisk \/ LoadFromDisk

SpecGame == InitGame /\ [][NextGame]_vars

(***************************************************************************)
(* Claims about ItchGame (SpecGame)                                        *)
(***************************************************************************)
\* C23: serialize followed by from_dict gives a Sale with the id, start and
\* end it had, and save_to_disk followed by load_from_disk gives a Game whose
\* eight fields each have the value and the shape they had when written.
C23_RoundTrip ==
    /\ \A n \in SaleIds, t1 \in Times, t2 \in Times :
         LET sale == NewSale(n, fromtimestamp(t2), fromtimestamp(t1))
             dict == serialize(sale)
         IN  /\ ~NeedsData(dict.start, dict.end)
             /\ NewSale(dict.id, fromtimestamp(dict.end), fromtimestamp(dict.start))
                  = sale
    /\ (gop = "load_from_disk" /\ gpc = "returned" /\ written # NoGame) =>
         \A f \in Fields : f \in game.has /\ game.val[f] = written.val[f]

\* C24: a file written by save_to_disk holds all eight fields, and
\* load_from_disk returns a Game for every file that exists, whichever of
\* the fields it lacks.
C24_TolerantRead ==
    /\ written # NoGame => (game_file.exists /\ game_file.has = Fields)
    /\ (gop = "load_from_disk" /\ game_file.exists) => gpc = "returned"

\* C25 as claimed: no field of an object is probed by more than one request.
C25_OneRequestPerField == \A f \in DOMAIN probes : probes[f] <= 1

\* C25: once claimable or sale_end of an object has a value (a probe that
\* returned, or load_from_disk), reads and save_to_disk issue no request for
\* it and its value stays; an object made by load_from_disk is never probed.
C25_ResolvedOnce ==
    [][ /\ \A f \in DOMAIN probes :
             (Cached(game, f) /\ gop' # "load_from_disk") =>
                /\ probes'[f] = probes[f]
                /\ Cached(game', f)
                /\ game'.val[f] = game.val[f]
        /\ origin' = "load_from_disk" => probes' = NoProbes ]_vars

\* C25 witness: claimable of an object made by from_div was resolved by one
\* request and then read again.
C25_Witness ==
    /\ origin = "from_div"
    /\ gop = "claimable"
    /\ gpc = "returned"
    /\ probes.claimable = 1
    /\ hits.claimable = 1

(***************************************************************************)
(* schedule (SpecSched)                                                    *)
(*                                                                         *)
(* The loop of schedule: check the cron expression, sleep 60 s when it     *)
(* does not match, run claim and sleep 60 s when it does. The sweep is the *)
(* one of Spec, step by step. A termination signal runs signal_handler,    *)
(* whose exit(0) raises SystemExit at the point the run has reached.       *)
(***************************************************************************)
\* wall-clock time is counted in ticks: so many to the minute
TicksPerMinute == 2
\* the model follows the clock up to this tick
MaxClock == 3

\* a faulty variant of AfterSleep: the sleep takes no time
AfterSleepNone(t) == t
\* sleep(60): the time at which the loop goes on
AfterSleep(t) == t + TicksPerMinute

\* pycron.is_now(cron) at time t: the expression matches the current minute
is_now(expr, t) == (t \div TicksPerMinute) \in expr

\* if not pycron.is_now(cron): sleep(60); continue / self.claim(url)
SchedCheck ==
    /\ sched = "check"
    /\ IF is_now(cron, clock)
       THEN /\ ops < MaxOps
            /\ sched' = "sweep"
            /\ called' = ops
            /\ sweptAt' = Append(sweptAt, clock \div TicksPerMinute)
       ELSE /\ sched' = "sleep"
            /\ UNCHANGED <<called, sweptAt>>
    /\ UNCHANGED <<cron, clock, signalled, opsAtSignal, swallowed>>
    /\ UNCHANGED <<webVars, claimVars, loginVars, saleVars, crawlVars, gameVars>>

\* sleep(60) returns and the loop checks again
SchedSleep ==
    /\ sched = "sleep"
    /\ AfterSleep(clock) <= MaxClock
    /\ clock' = AfterSleep(clock)
    /\ sched' = "check"
    /\ UNCHANGED <<cron, called, sweptAt, signalled, opsAtSignal, swallowed>>
    /\ UNCHANGED <<webVars, claimVars, loginVars, saleVars, crawlVars, gameVars>>

\* self.claim(url) has returned, within the tick of the check or in the
\* next one; sleep(60) follows
SchedSweepReturn ==
    /\ sched = "sweep"
    /\ mode = "idle"
    /\ ops > called
    /\ \E spent \in 0..1 :
         /\ clock + spent <= MaxClock
         /\ clock' = clock + spent
    /\ sched' = "sleep"
    /\ UNCHANGED <<cron, called, sweptAt, signalled, opsAtSignal, swallowed>>
    /\ UNCHANGED <<webVars, claimVars, loginVars, saleVars, crawlVars, gameVars>>

\* an exception left self.claim(url): nothing in schedule catches it
SchedCrash ==
    /\ sched = "sweep"
    /\ pc = "crashed"
    /\ sched' = "crashed"
    /\ UNCHANGED <<cron, clock, called, sweptAt, signalled, opsAtSignal, swallowed>>
    /\ UNCHANGED <<webVars, claimVars, loginVars, saleVars, crawlVars, gameVars>>

\* SIGINT or SIGTERM is delivered: signal_handler runs exit(0). The
\* SystemExit ends the process, except inside the try of _claim_game, whose
\* bare except catches it: the attempt returns as a failed check and the
\* run goes on.
Signal ==
    /\ sched \in {"check", "sleep", "sweep"}
    /\ signalled' = TRUE
    /\ opsAtSignal' = IF signalled THEN opsAtSignal ELSE ops
    /\ IF sched = "sweep" /\ pc = "neg"
       THEN /\ swallowed' = TRUE
            /\ negCount' = negCount + 1
            /\ resp' = "exc"
            /\ pc' = AfterNegotiation("exc").pc
            /\ outcome' = AfterNegotiation("exc").outcome
            /\ UNCHANGED sched
       ELSE /\ sched' = "exited"
            /\ UNCHANGED <<swallowed, negCount, resp, pc, outcome>>
    /\ UNCHANGED <<g, depth, posted, snap, reqOwned, claim_box, final_url, online>>
    /\ UNCHANGED <<mode, owned_games, saved, sweepVars, scrapeVars, histVars, ops>>
    /\ UNCHANGED <<cron, clock, called, sweptAt>>
    /\ UNCHANGED <<webVars, loginVars, saleVars, crawlVars, gameVars>>

\* schedule(cron) was called by a logged-in run whose session holds no
\* library yet, with an expression that matches every minute or every second
\* minute.
InitSched ==
    /\ WebIdle
    /\ ClaimParked
    /\ LoggedIn
    /\ SaleParked
    /\ CrawlIdle
    /\ GameIdle
    /\ sched = "check"
    /\ cron \in {{m \in 0..MaxClock : TRUE}, {m \in 0..MaxClock : m % 2 = 0}}
    /\ clock = 0
    /\ called = 0
    /\ sweptAt = <<>>
    /\ signalled = FALSE
    /\ opsAtSignal = 0
    /\ swallowed = FALSE

NextSched ==
    \/ SchedCheck \/ SchedSleep \/ SchedSweepReturn \/ SchedCrash
    \/ Signal
    \/ (sched = "sweep" /\ ops = called /\ ClaimStart)
    \/ (sched = "sweep" /\ (ClaimLoop \/ ClaimReturn \/ ClaimRaise \/ ClaimDone))
    \/ (sched = "sweep" /\ NextTx)

SpecSched == InitSched /\ [][NextSched]_vars

(***************************************************************************)
(* Claims about schedule (SpecSched)                                       *)
(***************************************************************************)
\* C26: once a termination signal was delivered, wherever the loop was (in a
\* sleep, at a check, at any step of a sweep), the scheduler starts no claim
\* sweep any more.
C26_NoSweepAfterSignal == signalled => ops = opsAtSignal

\* C27: the run ends on a signal only outside a sweep: when the scheduler has
\* exited, no sweep and no claim transaction is under way.
C27_ExitOnlyBetweenSweeps ==
    sched = "exited" => (mode = "idle" /\ pc = "idle" /\ g = 0)

\* C28: a sweep starts only at a check whose minute matches the expression and
\* has started no sweep before; a check that does not match goes to the sleep,
\* the sleep lasts 60 s and leads to the next check, and the return of a
\* sweep goes to the sleep.
C28_OneSweepPerMatchingMinute ==
    [][ /\ ops' # ops =>
             /\ sched = "sweep"
             /\ ops = called
             /\ is_now(cron, clock)
        /\ (sched # "sweep" /\ sched' = "sweep") =>
             /\ sched = "check"
             /\ is_now(cron, clock)
             /\ \A k \in 1..Len(sweptAt) : sweptAt[k] # clock \div TicksPerMinute
        /\ (sched = "check" /\ ~is_now(cron, clock) /\ sched' # "exited") =>
             sched' = "sleep"
        /\ (sched = "sleep" /\ sched' # "exited") =>
             (sched' = "check" /\ clock' = clock + TicksPerMinute)
        /\ (sched = "sweep" /\ sched' \notin {"sweep", "exited", "crashed"}) =>
             sched' = "sleep" ]_vars

\* C28 witness: the second sweep of a run has started, in another minute than
\* the first.
C28_Witness ==
    /\ sched = "sweep"
    /\ Len(sweptAt) = 2
    /\ sweptAt[1] # sweptAt[2]
    /\ ops = 2
    /\ mode = "claim"

====
